---- MODULE Spec2Model ----
(***************************************************************************)
(* Vossryn/dev-tools: the contrast checker, the CSS colour converter, the  *)
(* theme provider and the pixel, SVG, regex, JSON, image, data URI and CSS *)
(* tools.                                                                  *)
(*                                                                         *)
(* Numbers.  A JavaScript number x is modelled by the integer              *)
(* floor(x * Scale), six decimal places of fixed point.  TLC integers are *)
(* 32 bits wide, so products and quotients of two fixed-point numbers are  *)
(* computed limb by limb (MulFix, DivFix).  A record field that is absent  *)
(* models a JavaScript property that is undefined.  NaN and the two        *)
(* infinities are integers outside the range of the finite numbers.        *)
(***************************************************************************)
EXTENDS Integers, Sequences, FiniteSets, TLC

VARIABLES
    foreground,     \* ContrastChecker: useState(DEFAULT_FOREGROUND)
    background,     \* ContrastChecker: useState(DEFAULT_BACKGROUND)
    swaps,          \* history: how many swaps in a row led to this state (0..2)
    swapFrom,       \* history: <<foreground, background>> before those swaps
    ratio,          \* rating harness: the ratio handed to getRating
    rated,          \* rating harness: the four labels computed from ratio
    color,          \* ColorConverter: useState(INITIAL_COLOR), the Canonical Color
    inputValues,    \* ColorConverter: useState(INITIAL_VALUES), the ten drafts
    inputErrors,    \* ColorConverter: useState({}), format id -> message
    lastEvent,      \* history: <<handler, format id>> of the latest converter event
    source,         \* formatting harness: the text the sample was parsed from, or ""
    sample,         \* formatting harness: the colour handed to formatValues
    shown,          \* formatting harness: the ten strings formatValues returned
    storage,        \* localStorage: <<value>> under THEME_STORAGE_KEY, <<>> for no item
    theme,          \* ThemeProvider of each tab: useState(theme), or "unmounted"
    inbox,          \* storage events dispatched to each tab and not yet handled
    writes,         \* how many writes to localStorage there have been
    themeEvent,     \* history: <<event, tab, value>> of the latest theme event
    valueInput,     \* PixelConverter: useState("16")
    unit,           \* PixelConverter: useState("px")
    baseSizeInput,  \* PixelConverter: useState("16")
    svgOptimizer,   \* SvgOptimizer: its useState and useRef values, its pending timers
    optimizations,  \* history: tokens whose optimize() ran, tokens whose timer was cleared
    regexTester,    \* RegexTester: useState of pattern, testString and flags
    jsonParser,     \* JsonParserTool: rawInput, indentSetting, debouncedInput and its timer
    jsonClick,      \* history: <<handler, rawInput before it, indentSetting>> of the latest event
    imageConverter, \* ImageConverter: its useState and useRef values, timers and pending awaits
    dataUriEncoder, \* DataUriEncoder: its useState values and the FileReader reads in flight
    cssParser       \* CssParserTool: its useState values, the debounce timer, operations in flight

contrastVars == <<foreground, background, swaps, swapFrom>>
ratingVars == <<ratio, rated>>
converterVars == <<color, inputValues, inputErrors, lastEvent>>

formatVars == <<source, sample, shown>>

themeVars == <<storage, theme, inbox, writes, themeEvent>>

pixelVars == <<valueInput, unit, baseSizeInput>>

(* the tools that keep to themselves: none shares state with another *)
svgVars == <<svgOptimizer, optimizations>>
regexVars == <<regexTester>>
jsonVars == <<jsonParser, jsonClick>>
imageVars == <<imageConverter>>
dataUriVars == <<dataUriEncoder>>
cssVars == <<cssParser>>
toolVars == <<pixelVars, svgVars, regexVars, jsonVars, imageVars, dataUriVars, cssVars>>

colourVars == <<contrastVars, ratingVars, converterVars, formatVars, themeVars>>

vars == <<colourVars, toolVars>>

(* what the handlers of one tool leave alone: the state of the others *)
exceptContrast == <<ratingVars, converterVars, formatVars, themeVars, toolVars>>
exceptRating == <<contrastVars, converterVars, formatVars, themeVars, toolVars>>
exceptConverter == <<contrastVars, ratingVars, formatVars, themeVars, toolVars>>
exceptFormat == <<contrastVars, ratingVars, converterVars, themeVars, toolVars>>
exceptTheme == <<contrastVars, ratingVars, converterVars, formatVars, toolVars>>
exceptPixel == <<colourVars, svgVars, regexVars, jsonVars, imageVars, dataUriVars, cssVars>>
exceptSvg == <<colourVars, pixelVars, regexVars, jsonVars, imageVars, dataUriVars, cssVars>>
exceptRegex == <<colourVars, pixelVars, svgVars, jsonVars, imageVars, dataUriVars, cssVars>>
exceptJson == <<colourVars, pixelVars, svgVars, regexVars, imageVars, dataUriVars, cssVars>>
exceptImage == <<colourVars, pixelVars, svgVars, regexVars, jsonVars, dataUriVars, cssVars>>
exceptDataUri == <<colourVars, pixelVars, svgVars, regexVars, jsonVars, imageVars, cssVars>>
exceptCss == <<colourVars, pixelVars, svgVars, regexVars, jsonVars, imageVars, dataUriVars>>

Scale == 10^6
Kilo == 10^3

Null == [mode |-> "null"]

(* a property that is absent reads as undefined *)
Undefined == -(2^30)

(* the numbers that are not finite; every finite number of the model lies
   strictly between NegInfinity and Infinity *)
NaN == 1 - 2^30
NegInfinity == 2 - 2^30
Infinity == 2^30

isNaN(value) == value = NaN
isFinite(value) == value \notin {Undefined, NaN, NegInfinity, Infinity}

Abs(x) == IF x < 0 THEN -x ELSE x
Max(a, b) == IF a >= b THEN a ELSE b
Min(a, b) == IF a <= b THEN a ELSE b

(* floor(|a| * |b| / Scale) with the sign of a * b, exact for |a|,|b| < 4*10^7 *)
MulFix(a, b) ==
    LET x == Abs(a)
        y == Abs(b)
        xh == x \div Kilo
        xl == x % Kilo
        yh == y \div Kilo
        yl == y % Kilo
        m == xh * yh + (xh * yl + xl * yh + (xl * yl) \div Kilo) \div Kilo
    IN IF (a < 0) # (b < 0) THEN -m ELSE m

(* the first k decimal digits of rem / d, for 0 <= rem < d *)
RECURSIVE FracDigits(_, _, _)
FracDigits(rem, d, k) ==
    IF k = 0 THEN 0
    ELSE LET t == rem * 10
         IN (10^(k - 1)) * (t \div d) + FracDigits(t % d, d, k - 1)

(* floor(n * Scale / d) for n >= 0, d > 0 *)
DivFix(n, d) == (n \div d) * Scale + FracDigits(n % d, d, 6)

(***************************************************************************)
(* culori, the colour library both tools import.  Its parse() and          *)
(* converter(mode) are tabulated on the model's input texts: CuloriParse   *)
(* lists parse(text) for every text the model may hand to it (Null for a   *)
(* text culori rejects), CuloriRows lists, for every colour that parse()   *)
(* or a conversion can produce from those texts, its coordinates in the    *)
(* seven colour spaces the tools convert to.  The table also holds OKLCH   *)
(* colours that are built directly: hues outside [0, 360), and channels    *)
(* that are not finite, whose conversions are NaN by IEEE arithmetic.      *)
(* Table values are rounded to the six decimals of the fixed point.       *)
(***************************************************************************)
CuloriParse ==
    <<
      <<"#000000", [mode |-> "rgb", r |-> 0, g |-> 0, b |-> 0]>>,
      <<"#FFFFFF", [mode |-> "rgb", r |-> 1000000, g |-> 1000000, b |-> 1000000]>>,
      <<"#777777", [mode |-> "rgb", r |-> 466667, g |-> 466667, b |-> 466667]>>,
      <<"#767676", [mode |-> "rgb", r |-> 462745, g |-> 462745, b |-> 462745]>>,
      <<"#6366f1", [mode |-> "rgb", r |-> 388235, g |-> 400000, b |-> 945098]>>,
      <<"hsl(210, 50%, 50%)", [mode |-> "hsl", h |-> 210000000, s |-> 500000, l |-> 500000]>>,
      <<"red", [mode |-> "rgb", r |-> 1000000, g |-> 0, b |-> 0]>>,
      <<"rgb(300 300 300)", [mode |-> "rgb", r |-> 1176471, g |-> 1176471, b |-> 1176471]>>,
      <<"color(display-p3 0 1 0)", [mode |-> "p3", r |-> 0, g |-> 1000000, b |-> 0]>>,
      <<"", Null>>,
      <<"not-a-color", Null>>,
      <<"#12", Null>>,
      <<"#4b363c", [mode |-> "rgb", r |-> 294118, g |-> 211765, b |-> 235294]>>,
      <<"#570C2D", [mode |-> "rgb", r |-> 341176, g |-> 47059, b |-> 176471]>>,
      <<"#00ff00", [mode |-> "rgb", r |-> 0, g |-> 1000000, b |-> 0]>>,
      <<"#0000FF", [mode |-> "rgb", r |-> 0, g |-> 0, b |-> 1000000]>>,
      <<"#fFfF00", [mode |-> "rgb", r |-> 1000000, g |-> 1000000, b |-> 0]>>,
      <<"#0b07c8", [mode |-> "rgb", r |-> 43137, g |-> 27451, b |-> 784314]>>,
      <<"#306C03", [mode |-> "rgb", r |-> 188235, g |-> 423529, b |-> 11765]>>,
      <<"#55d13E", [mode |-> "rgb", r |-> 333333, g |-> 819608, b |-> 243137]>>,
      <<"#7a3679", [mode |-> "rgb", r |-> 478431, g |-> 211765, b |-> 474510]>>,
      <<"#9F9BB4", [mode |-> "rgb", r |-> 623529, g |-> 607843, b |-> 705882]>>,
      <<"#c400eF", [mode |-> "rgb", r |-> 768627, g |-> 0, b |-> 937255]>>,
      <<"#e9652a", [mode |-> "rgb", r |-> 913725, g |-> 396078, b |-> 164706]>>,
      <<"#0ECA65", [mode |-> "rgb", r |-> 54902, g |-> 792157, b |-> 396078]>>,
      <<"#332Fa0", [mode |-> "rgb", r |-> 200000, g |-> 184314, b |-> 627451]>>,
      <<"#5894db", [mode |-> "rgb", r |-> 345098, g |-> 580392, b |-> 858824]>>,
      <<"#7DF916", [mode |-> "rgb", r |-> 490196, g |-> 976471, b |-> 86275]>>,
      <<"#a25E51", [mode |-> "rgb", r |-> 635294, g |-> 368627, b |-> 317647]>>,
      <<"#c7c38c", [mode |-> "rgb", r |-> 780392, g |-> 764706, b |-> 549020]>>,
      <<"#EC28C7", [mode |-> "rgb", r |-> 925490, g |-> 156863, b |-> 780392]>>,
      <<"#118D02", [mode |-> "rgb", r |-> 66667, g |-> 552941, b |-> 7843]>>,
      <<"#36f23d", [mode |-> "rgb", r |-> 211765, g |-> 949020, b |-> 239216]>>,
      <<"#5B5778", [mode |-> "rgb", r |-> 356863, g |-> 341176, b |-> 470588]>>,
      <<"#80bCb3", [mode |-> "rgb", r |-> 501961, g |-> 737255, b |-> 701961]>>,
      <<"#a521ee", [mode |-> "rgb", r |-> 647059, g |-> 129412, b |-> 933333]>>,
      <<"#CA8629", [mode |-> "rgb", r |-> 792157, g |-> 525490, b |-> 160784]>>,
      <<"#eFeB64", [mode |-> "rgb", r |-> 937255, g |-> 921569, b |-> 392157]>>,
      <<"#14509f", [mode |-> "rgb", r |-> 78431, g |-> 313725, b |-> 623529]>>,
      <<"#39B5DA", [mode |-> "rgb", r |-> 223529, g |-> 709804, b |-> 854902]>>,
      <<"#5E1A15", [mode |-> "rgb", r |-> 368627, g |-> 101961, b |-> 82353]>>,
      <<"#837f50", [mode |-> "rgb", r |-> 513725, g |-> 498039, b |-> 313725]>>,
      <<"#A8E48B", [mode |-> "rgb", r |-> 658824, g |-> 894118, b |-> 545098]>>,
      <<"#cD49c6", [mode |-> "rgb", r |-> 803922, g |-> 286275, b |-> 776471]>>,
      <<"#f2ae01", [mode |-> "rgb", r |-> 949020, g |-> 682353, b |-> 3922]>>,
      <<"#17133C", [mode |-> "rgb", r |-> 90196, g |-> 74510, b |-> 235294]>>,
      <<"#3C7877", [mode |-> "rgb", r |-> 235294, g |-> 470588, b |-> 466667]>>,
      <<"#61ddb2", [mode |-> "rgb", r |-> 380392, g |-> 866667, b |-> 698039]>>,
      <<"#8642ED", [mode |-> "rgb", r |-> 525490, g |-> 258824, b |-> 929412]>>,
      <<"#aBa728", [mode |-> "rgb", r |-> 670588, g |-> 654902, b |-> 156863]>>,
      <<"#d00c63", [mode |-> "rgb", r |-> 815686, g |-> 47059, b |-> 388235]>>,
      <<"#F5719E", [mode |-> "rgb", r |-> 960784, g |-> 443137, b |-> 619608]>>,
      <<"#1Ad6d9", [mode |-> "rgb", r |-> 101961, g |-> 839216, b |-> 850980]>>,
      <<"#3f3b14", [mode |-> "rgb", r |-> 247059, g |-> 231373, b |-> 78431]>>,
      <<"#64A04F", [mode |-> "rgb", r |-> 392157, g |-> 627451, b |-> 309804]>>,
      <<"#89058A", [mode |-> "rgb", r |-> 537255, g |-> 19608, b |-> 541176]>>,
      <<"#ae6ac5", [mode |-> "rgb", r |-> 682353, g |-> 415686, b |-> 772549]>>,
      <<"rgba(255, 0, 0, 0.5)", [mode |-> "rgb", r |-> 1000000, g |-> 0, b |-> 0, alpha |-> 500000]>>,
      <<"#ffffff", [mode |-> "rgb", r |-> 1000000, g |-> 1000000, b |-> 1000000]>>,
      <<"rgb(255, 255, 255)", [mode |-> "rgb", r |-> 1000000, g |-> 1000000, b |-> 1000000]>>,
      <<"rgba(255, 255, 255, 0)", [mode |-> "rgb", r |-> 1000000, g |-> 1000000, b |-> 1000000, alpha |-> 0]>>,
      <<"rgba(255, 255, 255, 0.5)", [mode |-> "rgb", r |-> 1000000, g |-> 1000000, b |-> 1000000, alpha |-> 500000]>>,
      <<"rgba(255, 255, 255, 1)", [mode |-> "rgb", r |-> 1000000, g |-> 1000000, b |-> 1000000, alpha |-> 1000000]>>,
      <<"#FF0000", [mode |-> "rgb", r |-> 1000000, g |-> 0, b |-> 0]>>,
      <<"rgb(255, 0, 0)", [mode |-> "rgb", r |-> 1000000, g |-> 0, b |-> 0]>>,
      <<"rgba(255, 0, 0, 0)", [mode |-> "rgb", r |-> 1000000, g |-> 0, b |-> 0, alpha |-> 0]>>,
      <<"rgba(255, 0, 0, 1)", [mode |-> "rgb", r |-> 1000000, g |-> 0, b |-> 0, alpha |-> 1000000]>>,
      <<"#4080BF", [mode |-> "rgb", r |-> 250980, g |-> 501961, b |-> 749020]>>,
      <<"rgb(64, 128, 191)", [mode |-> "rgb", r |-> 250980, g |-> 501961, b |-> 749020]>>,
      <<"rgba(64, 128, 191, 0)", [mode |-> "rgb", r |-> 250980, g |-> 501961, b |-> 749020, alpha |-> 0]>>,
      <<"rgba(64, 128, 191, 0.5)", [mode |-> "rgb", r |-> 250980, g |-> 501961, b |-> 749020, alpha |-> 500000]>>,
      <<"rgba(64, 128, 191, 1)", [mode |-> "rgb", r |-> 250980, g |-> 501961, b |-> 749020, alpha |-> 1000000]>>,
      <<"#6366F1", [mode |-> "rgb", r |-> 388235, g |-> 400000, b |-> 945098]>>,
      <<"rgb(99, 102, 241)", [mode |-> "rgb", r |-> 388235, g |-> 400000, b |-> 945098]>>,
      <<"rgba(99, 102, 241, 0)", [mode |-> "rgb", r |-> 388235, g |-> 400000, b |-> 945098, alpha |-> 0]>>,
      <<"rgba(99, 102, 241, 0.5)", [mode |-> "rgb", r |-> 388235, g |-> 400000, b |-> 945098, alpha |-> 500000]>>,
      <<"rgba(99, 102, 241, 1)", [mode |-> "rgb", r |-> 388235, g |-> 400000, b |-> 945098, alpha |-> 1000000]>>
    >>

CuloriRows ==
    {
      [ keys |-> {[mode |-> "rgb", r |-> 0, g |-> 0, b |-> 0], [mode |-> "oklch", l |-> 0, c |-> 0]},
        rgb |-> [mode |-> "rgb", r |-> 0, g |-> 0, b |-> 0],
        hsl |-> [mode |-> "hsl", s |-> 0, l |-> 0],
        hwb |-> [mode |-> "hwb", b |-> 1000000, w |-> 0],
        lab |-> [mode |-> "lab", b |-> 0, l |-> 0, a |-> 0],
        lch |-> [mode |-> "lch", l |-> 0, c |-> 0],
        oklab |-> [mode |-> "oklab", b |-> 0, l |-> 0, a |-> 0],
        oklch |-> [mode |-> "oklch", l |-> 0, c |-> 0] ],
      [ keys |-> {[mode |-> "rgb", r |-> 1000000, g |-> 1000000, b |-> 1000000], [mode |-> "oklch", l |-> 1000000, c |-> 0]},
        rgb |-> [mode |-> "rgb", r |-> 1000000, g |-> 1000000, b |-> 1000000],
        hsl |-> [mode |-> "hsl", s |-> 0, l |-> 1000000],
        hwb |-> [mode |-> "hwb", b |-> 0, w |-> 1000000],
        lab |-> [mode |-> "lab", b |-> 0, l |-> 100000001, a |-> 0],
        lch |-> [mode |-> "lch", l |-> 100000001, c |-> 0],
        oklab |-> [mode |-> "oklab", b |-> 0, l |-> 1000000, a |-> 0],
        oklch |-> [mode |-> "oklch", l |-> 1000000, c |-> 0] ],
      [ keys |-> {[mode |-> "rgb", r |-> 466667, g |-> 466667, b |-> 466667], [mode |-> "oklch", l |-> 569262, c |-> 0]},
        rgb |-> [mode |-> "rgb", r |-> 466667, g |-> 466667, b |-> 466667],
        hsl |-> [mode |-> "hsl", s |-> 0, l |-> 466667],
        hwb |-> [mode |-> "hwb", b |-> 533333, w |-> 466667],
        lab |-> [mode |-> "lab", b |-> 0, l |-> 50034440, a |-> 0],
        lch |-> [mode |-> "lch", l |-> 50034440, c |-> 0],
        oklab |-> [mode |-> "oklab", b |-> 0, l |-> 569262, a |-> 0],
        oklch |-> [mode |-> "oklch", l |-> 569262, c |-> 0] ],
      [ keys |-> {[mode |-> "rgb", r |-> 462745, g |-> 462745, b |-> 462745], [mode |-> "oklch", l |-> 565836, c |-> 0]},
        rgb |-> [mode |-> "rgb", r |-> 462745, g |-> 462745, b |-> 462745],
        hsl |-> [mode |-> "hsl", s |-> 0, l |-> 462745],
        hwb |-> [mode |-> "hwb", b |-> 537255, w |-> 462745],
        lab |-> [mode |-> "lab", b |-> 0, l |-> 49637015, a |-> 0],
        lch |-> [mode |-> "lch", l |-> 49637015, c |-> 0],
        oklab |-> [mode |-> "oklab", b |-> 0, l |-> 565836, a |-> 0],
        oklch |-> [mode |-> "oklch", l |-> 565836, c |-> 0] ],
      [ keys |-> {[mode |-> "rgb", r |-> 388235, g |-> 400000, b |-> 945098], [mode |-> "oklch", h |-> 277117292, l |-> 585404, c |-> 204055]},
        rgb |-> [mode |-> "rgb", r |-> 388235, g |-> 400000, b |-> 945098],
        hsl |-> [mode |-> "hsl", h |-> 238732394, s |-> 835294, l |-> 666667],
        hwb |-> [mode |-> "hwb", b |-> 54902, h |-> 238732394, w |-> 388235],
        lab |-> [mode |-> "lab", b |-> -71873618, l |-> 49048530, a |-> 30344877],
        lch |-> [mode |-> "lch", h |-> 292889360, l |-> 49048530, c |-> 78016848],
        oklab |-> [mode |-> "oklab", b |-> -202483, l |-> 585404, a |-> 25283],
        oklch |-> [mode |-> "oklch", h |-> 277117292, l |-> 585404, c |-> 204055] ],
      [ keys |-> {[mode |-> "hsl", h |-> 210000000, s |-> 500000, l |-> 500000], [mode |-> "oklch", h |-> 250532377, l |-> 585550, c |-> 118266]},
        rgb |-> [mode |-> "rgb", r |-> 250000, g |-> 500000, b |-> 750000],
        hsl |-> [mode |-> "hsl", h |-> 210000000, s |-> 500000, l |-> 500000],
        hwb |-> [mode |-> "hwb", b |-> 250000, h |-> 210000000, w |-> 250000],
        lab |-> [mode |-> "lab", b |-> -40143793, l |-> 51432076, a |-> -5228251],
        lch |-> [mode |-> "lch", h |-> 262579674, l |-> 51432076, c |-> 40482820],
        oklab |-> [mode |-> "oklab", b |-> -111505, l |-> 585550, a |-> -39415],
        oklch |-> [mode |-> "oklch", h |-> 250532377, l |-> 585550, c |-> 118266] ],
      [ keys |-> {[mode |-> "rgb", r |-> 1000000, g |-> 0, b |-> 0], [mode |-> "oklch", h |-> 29233880, l |-> 627955, c |-> 257683]},
        rgb |-> [mode |-> "rgb", r |-> 1000000, g |-> 0, b |-> 0],
        hsl |-> [mode |-> "hsl", h |-> 0, s |-> 1000000, l |-> 500000],
        hwb |-> [mode |-> "hwb", b |-> 0, h |-> 0, w |-> 0],
        lab |-> [mode |-> "lab", b |-> 69890988, l |-> 54290543, a |-> 80804920],
        lch |-> [mode |-> "lch", h |-> 40857669, l |-> 54290543, c |-> 106837191],
        oklab |-> [mode |-> "oklab", b |-> 125846, l |-> 627955, a |-> 224863],
        oklch |-> [mode |-> "oklch", h |-> 29233880, l |-> 627955, c |-> 257683] ],
      [ keys |-> {[mode |-> "rgb", r |-> 1176471, g |-> 1176471, b |-> 1176471], [mode |-> "oklch", l |-> 1131716, c |-> 0]},
        rgb |-> [mode |-> "rgb", r |-> 1176471, g |-> 1176471, b |-> 1176471],
        hsl |-> [mode |-> "hsl", s |-> 0, l |-> 1176471],
        hwb |-> [mode |-> "hwb", b |-> -176471, w |-> 1176471],
        lab |-> [mode |-> "lab", b |-> 0, l |-> 115279001, a |-> 0],
        lch |-> [mode |-> "lch", l |-> 115279001, c |-> 0],
        oklab |-> [mode |-> "oklab", b |-> 0, l |-> 1131716, a |-> 0],
        oklch |-> [mode |-> "oklch", l |-> 1131716, c |-> 0] ],
      [ keys |-> {[mode |-> "p3", r |-> 0, g |-> 1000000, b |-> 0], [mode |-> "oklch", h |-> 145644956, l |-> 848829, c |-> 368528]},
        rgb |-> [mode |-> "rgb", r |-> -511605, g |-> 1018266, b |-> -310675],
        hsl |-> [mode |-> "hsl", h |-> 127880288, s |-> 3019517, l |-> 253330],
        hwb |-> [mode |-> "hwb", b |-> -18266, h |-> 127880288, w |-> -511605],
        lab |-> [mode |-> "lab", b |-> 102871006, l |-> 86613990, a |-> -106538963],
        lch |-> [mode |-> "lch", h |-> 136003472, l |-> 86613990, c |-> 148097922],
        oklab |-> [mode |-> "oklab", b |-> 207967, l |-> 848829, a |-> -304241],
        oklch |-> [mode |-> "oklch", h |-> 145644956, l |-> 848829, c |-> 368528] ],
      [ keys |-> {[mode |-> "rgb", r |-> 294118, g |-> 211765, b |-> 235294], [mode |-> "oklch", h |-> 359972194, l |-> 358670, c |-> 31416]},
        rgb |-> [mode |-> "rgb", r |-> 294118, g |-> 211765, b |-> 235294],
        hsl |-> [mode |-> "hsl", h |-> 342857143, s |-> 162791, l |-> 252941],
        hwb |-> [mode |-> "hwb", b |-> 705882, h |-> 342857143, w |-> 211765],
        lab |-> [mode |-> "lab", b |-> 108215, l |-> 25210817, a |-> 10483725],
        lch |-> [mode |-> "lch", h |-> 591398, l |-> 25210817, c |-> 10484283],
        oklab |-> [mode |-> "oklab", b |-> -15, l |-> 358670, a |-> 31416],
        oklch |-> [mode |-> "oklch", h |-> 359972194, l |-> 358670, c |-> 31416] ],
      [ keys |-> {[mode |-> "rgb", r |-> 341176, g |-> 47059, b |-> 176471], [mode |-> "oklch", h |-> 359989622, l |-> 305944, c |-> 109343]},
        rgb |-> [mode |-> "rgb", r |-> 341176, g |-> 47059, b |-> 176471],
        hsl |-> [mode |-> "hsl", h |-> 333600000, s |-> 757576, l |-> 194118],
        hwb |-> [mode |-> "hwb", b |-> 658824, h |-> 333600000, w |-> 47059],
        lab |-> [mode |-> "lab", b |-> 528834, l |-> 18112701, a |-> 35254632],
        lch |-> [mode |-> "lch", h |-> 859397, l |-> 18112701, c |-> 35258598],
        oklab |-> [mode |-> "oklab", b |-> -20, l |-> 305944, a |-> 109343],
        oklch |-> [mode |-> "oklch", h |-> 359989622, l |-> 305944, c |-> 109343] ],
      [ keys |-> {[mode |-> "rgb", r |-> 0, g |-> 1000000, b |-> 0], [mode |-> "oklch", h |-> 142495345, l |-> 866440, c |-> 294827]},
        rgb |-> [mode |-> "rgb", r |-> 0, g |-> 1000000, b |-> 0],
        hsl |-> [mode |-> "hsl", h |-> 120000000, s |-> 1000000, l |-> 500000],
        hwb |-> [mode |-> "hwb", b |-> 0, h |-> 120000000, w |-> 0],
        lab |-> [mode |-> "lab", b |-> 80994598, l |-> 87818536, a |-> -79271082],
        lch |-> [mode |-> "lch", h |-> 134383858, l |-> 87818536, c |-> 113331502],
        oklab |-> [mode |-> "oklab", b |-> 179498, l |-> 866440, a |-> -233888],
        oklch |-> [mode |-> "oklch", h |-> 142495345, l |-> 866440, c |-> 294827] ],
      [ keys |-> {[mode |-> "rgb", r |-> 0, g |-> 0, b |-> 1000000], [mode |-> "oklch", h |-> 264052023, l |-> 452014, c |-> 313214]},
        rgb |-> [mode |-> "rgb", r |-> 0, g |-> 0, b |-> 1000000],
        hsl |-> [mode |-> "hsl", h |-> 240000000, s |-> 1000000, l |-> 500000],
        hwb |-> [mode |-> "hwb", b |-> 0, h |-> 240000000, w |-> 0],
        lab |-> [mode |-> "lab", b |-> -112029718, l |-> 29568297, a |-> 68287407],
        lch |-> [mode |-> "lch", h |-> 301364281, l |-> 29568297, c |-> 131201477],
        oklab |-> [mode |-> "oklab", b |-> -311528, l |-> 452014, a |-> -32457],
        oklch |-> [mode |-> "oklch", h |-> 264052023, l |-> 452014, c |-> 313214] ],
      [ keys |-> {[mode |-> "rgb", r |-> 1000000, g |-> 1000000, b |-> 0], [mode |-> "oklch", h |-> 109769236, l |-> 967983, c |-> 211006]},
        rgb |-> [mode |-> "rgb", r |-> 1000000, g |-> 1000000, b |-> 0],
        hsl |-> [mode |-> "hsl", h |-> 60000000, s |-> 1000000, l |-> 500000],
        hwb |-> [mode |-> "hwb", b |-> 0, h |-> 60000000, w |-> 0],
        lab |-> [mode |-> "lab", b |-> 93393612, l |-> 97607010, a |-> -15749847],
        lch |-> [mode |-> "lch", h |-> 99572264, l |-> 97607010, c |-> 94712324],
        oklab |-> [mode |-> "oklab", b |-> 198570, l |-> 967983, a |-> -71369],
        oklch |-> [mode |-> "oklch", h |-> 109769236, l |-> 967983, c |-> 211006] ],
      [ keys |-> {[mode |-> "rgb", r |-> 43137, g |-> 27451, b |-> 784314], [mode |-> "oklch", h |-> 265328613, l |-> 381822, c |-> 256996]},
        rgb |-> [mode |-> "rgb", r |-> 43137, g |-> 27451, b |-> 784314],
        hsl |-> [mode |-> "hsl", h |-> 241243523, s |-> 932367, l |-> 405882],
        hwb |-> [mode |-> "hwb", b |-> 215686, h |-> 241243523, w |-> 27451],
        lab |-> [mode |-> "lab", b |-> -91946936, l |-> 22751224, a |-> 55418346],
        lch |-> [mode |-> "lch", h |-> 301078251, l |-> 22751224, c |-> 107356565],
        oklab |-> [mode |-> "oklab", b |-> -256142, l |-> 381822, a |-> -20930],
        oklch |-> [mode |-> "oklch", h |-> 265328613, l |-> 381822, c |-> 256996] ],
      [ keys |-> {[mode |-> "rgb", r |-> 188235, g |-> 423529, b |-> 11765], [mode |-> "oklch", h |-> 136676105, l |-> 472228, c |-> 140568]},
        rgb |-> [mode |-> "rgb", r |-> 188235, g |-> 423529, b |-> 11765],
        hsl |-> [mode |-> "hsl", h |-> 94285714, s |-> 945946, l |-> 217647],
        hwb |-> [mode |-> "hwb", b |-> 576471, h |-> 94285714, w |-> 11765],
        lab |-> [mode |-> "lab", b |-> 43711213, l |-> 40268464, a |-> -33191564],
        lch |-> [mode |-> "lch", h |-> 127210766, l |-> 40268464, c |-> 54884880],
        oklab |-> [mode |-> "oklab", b |-> 96447, l |-> 472228, a |-> -102261],
        oklch |-> [mode |-> "oklch", h |-> 136676105, l |-> 472228, c |-> 140568] ],
      [ keys |-> {[mode |-> "rgb", r |-> 333333, g |-> 819608, b |-> 243137], [mode |-> "oklch", h |-> 140801608, l |-> 762170, c |-> 214668]},
        rgb |-> [mode |-> "rgb", r |-> 333333, g |-> 819608, b |-> 243137],
        hsl |-> [mode |-> "hsl", h |-> 110612245, s |-> 615063, l |-> 531373],
        hwb |-> [mode |-> "hwb", b |-> 180392, h |-> 110612245, w |-> 243137],
        lab |-> [mode |-> "lab", b |-> 58453547, l |-> 74838600, a |-> -55757389],
        lch |-> [mode |-> "lch", h |-> 133647679, l |-> 74838600, c |-> 80781827],
        oklab |-> [mode |-> "oklab", b |-> 135672, l |-> 762170, a |-> -166359],
        oklch |-> [mode |-> "oklch", h |-> 140801608, l |-> 762170, c |-> 214668] ],
      [ keys |-> {[mode |-> "rgb", r |-> 478431, g |-> 211765, b |-> 474510], [mode |-> "oklch", h |-> 328024350, l |-> 450138, c |-> 129695]},
        rgb |-> [mode |-> "rgb", r |-> 478431, g |-> 211765, b |-> 474510],
        hsl |-> [mode |-> "hsl", h |-> 300882353, s |-> 386364, l |-> 345098],
        hwb |-> [mode |-> "hwb", b |-> 521569, h |-> 300882353, w |-> 211765],
        lab |-> [mode |-> "lab", b |-> -24808283, l |-> 34259860, a |-> 37372878],
        lch |-> [mode |-> "lch", h |-> 326423616, l |-> 34259860, c |-> 44857362],
        oklab |-> [mode |-> "oklab", b |-> -68681, l |-> 450138, a |-> 110017],
        oklch |-> [mode |-> "oklch", h |-> 328024350, l |-> 450138, c |-> 129695] ],
      [ keys |-> {[mode |-> "rgb", r |-> 623529, g |-> 607843, b |-> 705882], [mode |-> "oklch", h |-> 292776146, l |-> 701111, c |-> 36395]},
        rgb |-> [mode |-> "rgb", r |-> 623529, g |-> 607843, b |-> 705882],
        hsl |-> [mode |-> "hsl", h |-> 249600000, s |-> 142857, l |-> 656863],
        hwb |-> [mode |-> "hwb", b |-> 294118, h |-> 249600000, w |-> 607843],
        lab |-> [mode |-> "lab", b |-> -12490336, l |-> 64945638, a |-> 5271782],
        lch |-> [mode |-> "lch", h |-> 292883095, l |-> 64945638, c |-> 13557293],
        oklab |-> [mode |-> "oklab", b |-> -33557, l |-> 701111, a |-> 14090],
        oklch |-> [mode |-> "oklch", h |-> 292776146, l |-> 701111, c |-> 36395] ],
      [ keys |-> {[mode |-> "rgb", r |-> 768627, g |-> 0, b |-> 937255], [mode |-> "oklch", h |-> 317733150, l |-> 604406, c |-> 293495]},
        rgb |-> [mode |-> "rgb", r |-> 768627, g |-> 0, b |-> 937255],
        hsl |-> [mode |-> "hsl", h |-> 289205021, s |-> 1000000, l |-> 468627],
        hwb |-> [mode |-> "hwb", b |-> 62745, h |-> 289205021, w |-> 0],
        lab |-> [mode |-> "lab", b |-> -70323888, l |-> 48901650, a |-> 81676515],
        lch |-> [mode |-> "lch", h |-> 319271384, l |-> 48901650, c |-> 107779879],
        oklab |-> [mode |-> "oklab", b |-> -197400, l |-> 604406, a |-> 217192],
        oklch |-> [mode |-> "oklch", h |-> 317733150, l |-> 604406, c |-> 293495] ],
      [ keys |-> {[mode |-> "rgb", r |-> 913725, g |-> 396078, b |-> 164706], [mode |-> "oklch", h |-> 41882257, l |-> 662866, c |-> 177942]},
        rgb |-> [mode |-> "rgb", r |-> 913725, g |-> 396078, b |-> 164706],
        hsl |-> [mode |-> "hsl", h |-> 18534031, s |-> 812766, l |-> 539216],
        hwb |-> [mode |-> "hwb", b |-> 86275, h |-> 18534031, w |-> 164706],
        lab |-> [mode |-> "lab", b |-> 56979373, l |-> 59525129, a |-> 50058695],
        lch |-> [mode |-> "lch", h |-> 48699380, l |-> 59525129, c |-> 75845381],
        oklab |-> [mode |-> "oklab", b |-> 118794, l |-> 662866, a |-> 132481],
        oklch |-> [mode |-> "oklch", h |-> 41882257, l |-> 662866, c |-> 177942] ],
      [ keys |-> {[mode |-> "rgb", r |-> 54902, g |-> 792157, b |-> 396078], [mode |-> "oklch", h |-> 151144653, l |-> 735058, c |-> 194791]},
        rgb |-> [mode |-> "rgb", r |-> 54902, g |-> 792157, b |-> 396078],
        hsl |-> [mode |-> "hsl", h |-> 147765957, s |-> 870370, l |-> 423529],
        hwb |-> [mode |-> "hwb", b |-> 207843, h |-> 147765957, w |-> 54902],
        lab |-> [mode |-> "lab", b |-> 37840965, l |-> 71708967, a |-> -60082295],
        lch |-> [mode |-> "lch", h |-> 147796501, l |-> 71708967, c |-> 71005780],
        oklab |-> [mode |-> "oklab", b |-> 94006, l |-> 735058, a |-> -170606],
        oklch |-> [mode |-> "oklch", h |-> 151144653, l |-> 735058, c |-> 194791] ],
      [ keys |-> {[mode |-> "rgb", r |-> 200000, g |-> 184314, b |-> 627451], [mode |-> "oklch", h |-> 276116858, l |-> 391076, c |-> 175531]},
        rgb |-> [mode |-> "rgb", r |-> 200000, g |-> 184314, b |-> 627451],
        hsl |-> [mode |-> "hsl", h |-> 242123894, s |-> 545894, l |-> 405882],
        hwb |-> [mode |-> "hwb", b |-> 372549, h |-> 242123894, w |-> 184314],
        lab |-> [mode |-> "lab", b |-> -61874265, l |-> 26463441, a |-> 31041019],
        lch |-> [mode |-> "lch", h |-> 296641958, l |-> 26463441, c |-> 69224053],
        oklab |-> [mode |-> "oklab", b |-> -174531, l |-> 391076, a |-> 18704],
        oklch |-> [mode |-> "oklch", h |-> 276116858, l |-> 391076, c |-> 175531] ],
      [ keys |-> {[mode |-> "rgb", r |-> 345098, g |-> 580392, b |-> 858824], [mode |-> "oklch", h |-> 253700366, l |-> 656942, c |-> 123770]},
        rgb |-> [mode |-> "rgb", r |-> 345098, g |-> 580392, b |-> 858824],
        hsl |-> [mode |-> "hsl", h |-> 212519084, s |-> 645320, l |-> 601961],
        hwb |-> [mode |-> "hwb", b |-> 141176, h |-> 212519084, w |-> 345098],
        lab |-> [mode |-> "lab", b |-> -42843038, l |-> 59612348, a |-> -3743609],
        lch |-> [mode |-> "lch", h |-> 265006200, l |-> 59612348, c |-> 43006284],
        oklab |-> [mode |-> "oklab", b |-> -118796, l |-> 656942, a |-> -34737],
        oklch |-> [mode |-> "oklch", h |-> 253700366, l |-> 656942, c |-> 123770] ],
      [ keys |-> {[mode |-> "rgb", r |-> 490196, g |-> 976471, b |-> 86275], [mode |-> "oklch", h |-> 136134885, l |-> 875114, c |-> 256703]},
        rgb |-> [mode |-> "rgb", r |-> 490196, g |-> 976471, b |-> 86275],
        hsl |-> [mode |-> "hsl", h |-> 92775330, s |-> 949791, l |-> 531373],
        hwb |-> [mode |-> "hwb", b |-> 23529, h |-> 92775330, w |-> 86275],
        lab |-> [mode |-> "lab", b |-> 80532255, l |-> 88219568, a |-> -59841478],
        lch |-> [mode |-> "lch", h |-> 126615105, l |-> 88219568, c |-> 100331683],
        oklab |-> [mode |-> "oklab", b |-> 177886, l |-> 875114, a |-> -185076],
        oklch |-> [mode |-> "oklch", h |-> 136134885, l |-> 875114, c |-> 256703] ],
      [ keys |-> {[mode |-> "rgb", r |-> 635294, g |-> 368627, b |-> 317647], [mode |-> "oklch", h |-> 31699208, l |-> 556009, c |-> 91856]},
        rgb |-> [mode |-> "rgb", r |-> 635294, g |-> 368627, b |-> 317647],
        hsl |-> [mode |-> "hsl", h |-> 9629630, s |-> 333333, l |-> 476471],
        hwb |-> [mode |-> "hwb", b |-> 364706, h |-> 9629630, w |-> 317647],
        lab |-> [mode |-> "lab", b |-> 20046058, l |-> 47703240, a |-> 27396162],
        lch |-> [mode |-> "lch", h |-> 36193324, l |-> 47703240, c |-> 33946931],
        oklab |-> [mode |-> "oklab", b |-> 48267, l |-> 556009, a |-> 78153],
        oklch |-> [mode |-> "oklch", h |-> 31699208, l |-> 556009, c |-> 91856] ],
      [ keys |-> {[mode |-> "rgb", r |-> 780392, g |-> 764706, b |-> 549020], [mode |-> "oklch", h |-> 104400142, l |-> 807082, c |-> 72904]},
        rgb |-> [mode |-> "rgb", r |-> 780392, g |-> 764706, b |-> 549020],
        hsl |-> [mode |-> "hsl", h |-> 55932203, s |-> 345029, l |-> 664706],
        hwb |-> [mode |-> "hwb", b |-> 219608, h |-> 55932203, w |-> 549020],
        lab |-> [mode |-> "lab", b |-> 28271105, l |-> 78121835, a |-> -4878915],
        lch |-> [mode |-> "lch", h |-> 99791434, l |-> 78121835, c |-> 28689008],
        oklab |-> [mode |-> "oklab", b |-> 70614, l |-> 807082, a |-> -18131],
        oklch |-> [mode |-> "oklch", h |-> 104400142, l |-> 807082, c |-> 72904] ],
      [ keys |-> {[mode |-> "rgb", r |-> 925490, g |-> 156863, b |-> 780392], [mode |-> "oklch", h |-> 337774741, l |-> 652494, c |-> 266242]},
        rgb |-> [mode |-> "rgb", r |-> 925490, g |-> 156863, b |-> 780392],
        hsl |-> [mode |-> "hsl", h |-> 311326531, s |-> 837607, l |-> 541176],
        hwb |-> [mode |-> "hwb", b |-> 74510, h |-> 311326531, w |-> 156863],
        lab |-> [mode |-> "lab", b |-> -36214328, l |-> 55731623, a |-> 80257575],
        lch |-> [mode |-> "lch", h |-> 335713852, l |-> 55731623, c |-> 88049735],
        oklab |-> [mode |-> "oklab", b |-> -100706, l |-> 652494, a |-> 246461],
        oklch |-> [mode |-> "oklch", h |-> 337774741, l |-> 652494, c |-> 266242] ],
      [ keys |-> {[mode |-> "rgb", r |-> 66667, g |-> 552941, b |-> 7843], [mode |-> "oklch", h |-> 141955261, l |-> 559099, c |-> 187024]},
        rgb |-> [mode |-> "rgb", r |-> 66667, g |-> 552941, b |-> 7843],
        hsl |-> [mode |-> "hsl", h |-> 113525180, s |-> 972028, l |-> 280392],
        hwb |-> [mode |-> "hwb", b |-> 447059, h |-> 113525180, w |-> 7843],
        lab |-> [mode |-> "lab", b |-> 51957138, l |-> 50947189, a |-> -49714937],
        lch |-> [mode |-> "lch", h |-> 133736646, l |-> 50947189, c |-> 71910494],
        oklab |-> [mode |-> "oklab", b |-> 115259, l |-> 559099, a |-> -147287],
        oklch |-> [mode |-> "oklch", h |-> 141955261, l |-> 559099, c |-> 187024] ],
      [ keys |-> {[mode |-> "rgb", r |-> 211765, g |-> 949020, b |-> 239216], [mode |-> "oklch", h |-> 143178785, l |-> 839388, c |-> 260544]},
        rgb |-> [mode |-> "rgb", r |-> 211765, g |-> 949020, b |-> 239216],
        hsl |-> [mode |-> "hsl", h |-> 122234043, s |-> 878505, l |-> 580392],
        hwb |-> [mode |-> "hwb", b |-> 50980, h |-> 122234043, w |-> 211765],
        lab |-> [mode |-> "lab", b |-> 67844233, l |-> 84358727, a |-> -70978689],
        lch |-> [mode |-> "lch", h |-> 136293450, l |-> 84358727, c |-> 98187649],
        oklab |-> [mode |-> "oklab", b |-> 156149, l |-> 839388, a |-> -208568],
        oklch |-> [mode |-> "oklch", h |-> 143178785, l |-> 839388, c |-> 260544] ],
      [ keys |-> {[mode |-> "rgb", r |-> 356863, g |-> 341176, b |-> 470588], [mode |-> "oklch", h |-> 289771762, l |-> 473775, c |-> 52918]},
        rgb |-> [mode |-> "rgb", r |-> 356863, g |-> 341176, b |-> 470588],
        hsl |-> [mode |-> "hsl", h |-> 247272727, s |-> 159420, l |-> 405882],
        hwb |-> [mode |-> "hwb", b |-> 529412, h |-> 247272727, w |-> 341176],
        lab |-> [mode |-> "lab", b |-> -18235098, l |-> 38373236, a |-> 7535787],
        lch |-> [mode |-> "lch", h |-> 292453218, l |-> 38373236, c |-> 19730861],
        oklab |-> [mode |-> "oklab", b |-> -49799, l |-> 473775, a |-> 17901],
        oklch |-> [mode |-> "oklch", h |-> 289771762, l |-> 473775, c |-> 52918] ],
      [ keys |-> {[mode |-> "rgb", r |-> 501961, g |-> 737255, b |-> 701961], [mode |-> "oklch", h |-> 184249430, l |-> 751578, c |-> 63382]},
        rgb |-> [mode |-> "rgb", r |-> 501961, g |-> 737255, b |-> 701961],
        hsl |-> [mode |-> "hsl", h |-> 171000000, s |-> 309278, l |-> 619608],
        hwb |-> [mode |-> "hwb", b |-> 262745, h |-> 171000000, w |-> 501961],
        lab |-> [mode |-> "lab", b |-> -1955939, l |-> 71951367, a |-> -21654977],
        lch |-> [mode |-> "lch", h |-> 185161112, l |-> 71951367, c |-> 21743131],
        oklab |-> [mode |-> "oklab", b |-> -4697, l |-> 751578, a |-> -63208],
        oklch |-> [mode |-> "oklch", h |-> 184249430, l |-> 751578, c |-> 63382] ],
      [ keys |-> {[mode |-> "rgb", r |-> 647059, g |-> 129412, b |-> 933333], [mode |-> "oklch", h |-> 308362641, l |-> 570826, c |-> 272980]},
        rgb |-> [mode |-> "rgb", r |-> 647059, g |-> 129412, b |-> 933333],
        hsl |-> [mode |-> "hsl", h |-> 278634146, s |-> 857741, l |-> 531373],
        hwb |-> [mode |-> "hwb", b |-> 66667, h |-> 278634146, w |-> 129412],
        lab |-> [mode |-> "lab", b |-> -76138556, l |-> 45143809, a |-> 72309023],
        lch |-> [mode |-> "lch", h |-> 313522257, l |-> 45143809, c |-> 105003212],
        oklab |-> [mode |-> "oklab", b |-> -214044, l |-> 570826, a |-> 169422],
        oklch |-> [mode |-> "oklch", h |-> 308362641, l |-> 570826, c |-> 272980] ],
      [ keys |-> {[mode |-> "rgb", r |-> 792157, g |-> 525490, b |-> 160784], [mode |-> "oklch", h |-> 69514050, l |-> 674532, c |-> 131915]},
        rgb |-> [mode |-> "rgb", r |-> 792157, g |-> 525490, b |-> 160784],
        hsl |-> [mode |-> "hsl", h |-> 34658385, s |-> 662551, l |-> 476471],
        hwb |-> [mode |-> "hwb", b |-> 207843, h |-> 34658385, w |-> 160784],
        lab |-> [mode |-> "lab", b |-> 57365191, l |-> 61968482, a |-> 21451067],
        lch |-> [mode |-> "lch", h |-> 69497283, l |-> 61968482, c |-> 61244701],
        oklab |-> [mode |-> "oklab", b |-> 123572, l |-> 674532, a |-> 46167],
        oklch |-> [mode |-> "oklch", h |-> 69514050, l |-> 674532, c |-> 131915] ],
      [ keys |-> {[mode |-> "rgb", r |-> 937255, g |-> 921569, b |-> 392157], [mode |-> "oklch", h |-> 107508752, l |-> 917942, c |-> 155210]},
        rgb |-> [mode |-> "rgb", r |-> 937255, g |-> 921569, b |-> 392157],
        hsl |-> [mode |-> "hsl", h |-> 58273381, s |-> 812865, l |-> 664706],
        hwb |-> [mode |-> "hwb", b |-> 62745, h |-> 58273381, w |-> 392157],
        lab |-> [mode |-> "lab", b |-> 64091141, l |-> 91475366, a |-> -10788355],
        lch |-> [mode |-> "lch", h |-> 99554931, l |-> 91475366, c |-> 64992792],
        oklab |-> [mode |-> "oklab", b |-> 148020, l |-> 917942, a |-> -46695],
        oklch |-> [mode |-> "oklch", h |-> 107508752, l |-> 917942, c |-> 155210] ],
      [ keys |-> {[mode |-> "rgb", r |-> 78431, g |-> 313725, b |-> 623529], [mode |-> "oklch", h |-> 257449675, l |-> 441510, c |-> 141667]},
        rgb |-> [mode |-> "rgb", r |-> 78431, g |-> 313725, b |-> 623529],
        hsl |-> [mode |-> "hsl", h |-> 214100719, s |-> 776536, l |-> 350980],
        hwb |-> [mode |-> "hwb", b |-> 376471, h |-> 214100719, w |-> 78431],
        lab |-> [mode |-> "lab", b |-> -49095358, l |-> 33999979, a |-> 5734994],
        lch |-> [mode |-> "lch", h |-> 276662717, l |-> 33999979, c |-> 49429185],
        oklab |-> [mode |-> "oklab", b |-> -138282, l |-> 441510, a |-> -30784],
        oklch |-> [mode |-> "oklch", h |-> 257449675, l |-> 441510, c |-> 141667] ],
      [ keys |-> {[mode |-> "rgb", r |-> 223529, g |-> 709804, b |-> 854902], [mode |-> "oklch", h |-> 222294368, l |-> 721629, c |-> 117770]},
        rgb |-> [mode |-> "rgb", r |-> 223529, g |-> 709804, b |-> 854902],
        hsl |-> [mode |-> "hsl", h |-> 193788820, s |-> 685106, l |-> 539216],
        hwb |-> [mode |-> "hwb", b |-> 145098, h |-> 193788820, w |-> 223529],
        lab |-> [mode |-> "lab", b |-> -29067422, l |-> 68230952, a |-> -25732273],
        lch |-> [mode |-> "lch", h |-> 228482766, l |-> 68230952, c |-> 38820934],
        oklab |-> [mode |-> "oklab", b |-> -79252, l |-> 721629, a |-> -87114],
        oklch |-> [mode |-> "oklch", h |-> 222294368, l |-> 721629, c |-> 117770] ],
      [ keys |-> {[mode |-> "rgb", r |-> 368627, g |-> 101961, b |-> 82353], [mode |-> "oklch", h |-> 28059091, l |-> 328315, c |-> 99933]},
        rgb |-> [mode |-> "rgb", r |-> 368627, g |-> 101961, b |-> 82353],
        hsl |-> [mode |-> "hsl", h |-> 4109589, s |-> 634783, l |-> 225490],
        hwb |-> [mode |-> "hwb", b |-> 631373, h |-> 4109589, w |-> 82353],
        lab |-> [mode |-> "lab", b |-> 21499321, l |-> 21118531, a |-> 31134983],
        lch |-> [mode |-> "lch", h |-> 34625845, l |-> 21118531, c |-> 37836596],
        oklab |-> [mode |-> "oklab", b |-> 47007, l |-> 328315, a |-> 88188],
        oklch |-> [mode |-> "oklch", h |-> 28059091, l |-> 328315, c |-> 99933] ],
      [ keys |-> {[mode |-> "rgb", r |-> 513725, g |-> 498039, b |-> 313725], [mode |-> "oklch", h |-> 104046672, l |-> 588345, c |-> 66026]},
        rgb |-> [mode |-> "rgb", r |-> 513725, g |-> 498039, b |-> 313725],
        hsl |-> [mode |-> "hsl", h |-> 55294118, s |-> 241706, l |-> 413725],
        hwb |-> [mode |-> "hwb", b |-> 486275, h |-> 55294118, w |-> 313725],
        lab |-> [mode |-> "lab", b |-> 26125755, l |-> 52675538, a |-> -3951650],
        lch |-> [mode |-> "lch", h |-> 98601074, l |-> 52675538, c |-> 26422919],
        oklab |-> [mode |-> "oklab", b |-> 64052, l |-> 588345, a |-> -16025],
        oklch |-> [mode |-> "oklch", h |-> 104046672, l |-> 588345, c |-> 66026] ],
      [ keys |-> {[mode |-> "rgb", r |-> 658824, g |-> 894118, b |-> 545098], [mode |-> "oklch", h |-> 135987021, l |-> 857046, c |-> 132856]},
        rgb |-> [mode |-> "rgb", r |-> 658824, g |-> 894118, b |-> 545098],
        hsl |-> [mode |-> "hsl", h |-> 100449438, s |-> 622378, l |-> 719608],
        hwb |-> [mode |-> "hwb", b |-> 105882, h |-> 100449438, w |-> 545098],
        lab |-> [mode |-> "lab", b |-> 37050764, l |-> 84942835, a |-> -31676055],
        lch |-> [mode |-> "lch", h |-> 130528345, l |-> 84942835, c |-> 48745580],
        oklab |-> [mode |-> "oklab", b |-> 92312, l |-> 857046, a |-> -95548],
        oklch |-> [mode |-> "oklch", h |-> 135987021, l |-> 857046, c |-> 132856] ],
      [ keys |-> {[mode |-> "rgb", r |-> 803922, g |-> 286275, b |-> 776471], [mode |-> "oklch", h |-> 329984730, l |-> 630340, c |-> 217263]},
        rgb |-> [mode |-> "rgb", r |-> 803922, g |-> 286275, b |-> 776471],
        hsl |-> [mode |-> "hsl", h |-> 303181818, s |-> 568966, l |-> 545098],
        hwb |-> [mode |-> "hwb", b |-> 196078, h |-> 303181818, w |-> 286275],
        lab |-> [mode |-> "lab", b |-> -39127445, l |-> 53795691, a |-> 63359474],
        lch |-> [mode |-> "lch", h |-> 328302725, l |-> 53795691, c |-> 74467308],
        oklab |-> [mode |-> "oklab", b |-> -108682, l |-> 630340, a |-> 188126],
        oklch |-> [mode |-> "oklch", h |-> 329984730, l |-> 630340, c |-> 217263] ],
      [ keys |-> {[mode |-> "rgb", r |-> 949020, g |-> 682353, b |-> 3922], [mode |-> "oklch", h |-> 80266503, l |-> 794226, c |-> 164233]},
        rgb |-> [mode |-> "rgb", r |-> 949020, g |-> 682353, b |-> 3922],
        hsl |-> [mode |-> "hsl", h |-> 43070539, s |-> 991770, l |-> 476471],
        hwb |-> [mode |-> "hwb", b |-> 50980, h |-> 43070539, w |-> 3922],
        lab |-> [mode |-> "lab", b |-> 78412617, l |-> 76131235, a |-> 17603109],
        lch |-> [mode |-> "lch", h |-> 77347251, l |-> 76131235, c |-> 80364220],
        oklab |-> [mode |-> "oklab", b |-> 161869, l |-> 794226, a |-> 27766],
        oklch |-> [mode |-> "oklch", h |-> 80266503, l |-> 794226, c |-> 164233] ],
      [ keys |-> {[mode |-> "rgb", r |-> 90196, g |-> 74510, b |-> 235294], [mode |-> "oklch", h |-> 282598520, l |-> 220094, c |-> 75945]},
        rgb |-> [mode |-> "rgb", r |-> 90196, g |-> 74510, b |-> 235294],
        hsl |-> [mode |-> "hsl", h |-> 245853659, s |-> 518987, l |-> 154902],
        hwb |-> [mode |-> "hwb", b |-> 764706, h |-> 245853659, w |-> 74510],
        lab |-> [mode |-> "lab", b |-> -26329322, l |-> 8406348, a |-> 12907592],
        lch |-> [mode |-> "lch", h |-> 296115776, l |-> 8406348, c |-> 29323014],
        oklab |-> [mode |-> "oklab", b |-> -74116, l |-> 220094, a |-> 16565],
        oklch |-> [mode |-> "oklch", h |-> 282598520, l |-> 220094, c |-> 75945] ],
      [ keys |-> {[mode |-> "rgb", r |-> 235294, g |-> 470588, b |-> 466667], [mode |-> "oklch", h |-> 194007963, l |-> 532375, c |-> 62481]},
        rgb |-> [mode |-> "rgb", r |-> 235294, g |-> 470588, b |-> 466667],
        hsl |-> [mode |-> "hsl", h |-> 179000000, s |-> 333333, l |-> 352941],
        hwb |-> [mode |-> "hwb", b |-> 529412, h |-> 179000000, w |-> 235294],
        lab |-> [mode |-> "lab", b |-> -5811201, l |-> 46429616, a |-> -20552797],
        lch |-> [mode |-> "lch", h |-> 195787986, l |-> 46429616, c |-> 21358546],
        oklab |-> [mode |-> "oklab", b |-> -15124, l |-> 532375, a |-> -60623],
        oklch |-> [mode |-> "oklch", h |-> 194007963, l |-> 532375, c |-> 62481] ],
      [ keys |-> {[mode |-> "rgb", r |-> 380392, g |-> 866667, b |-> 698039], [mode |-> "oklch", h |-> 167508384, l |-> 815449, c |-> 127885]},
        rgb |-> [mode |-> "rgb", r |-> 380392, g |-> 866667, b |-> 698039],
        hsl |-> [mode |-> "hsl", h |-> 159193548, s |-> 645833, l |-> 623529],
        hwb |-> [mode |-> "hwb", b |-> 133333, h |-> 159193548, w |-> 380392],
        lab |-> [mode |-> "lab", b |-> 10250590, l |-> 80288214, a |-> -43916637],
        lch |-> [mode |-> "lch", h |-> 166861802, l |-> 80288214, c |-> 45097069],
        oklab |-> [mode |-> "oklab", b |-> 27661, l |-> 815449, a |-> -124858],
        oklch |-> [mode |-> "oklch", h |-> 167508384, l |-> 815449, c |-> 127885] ],
      [ keys |-> {[mode |-> "rgb", r |-> 525490, g |-> 258824, b |-> 929412], [mode |-> "oklch", h |-> 295792620, l |-> 560341, c |-> 239127]},
        rgb |-> [mode |-> "rgb", r |-> 525490, g |-> 258824, b |-> 929412],
        hsl |-> [mode |-> "hsl", h |-> 263859649, s |-> 826087, l |-> 594118],
        hwb |-> [mode |-> "hwb", b |-> 70588, h |-> 263859649, w |-> 258824],
        lab |-> [mode |-> "lab", b |-> -76482782, l |-> 44721621, a |-> 55427151],
        lch |-> [mode |-> "lch", h |-> 305930882, l |-> 44721621, c |-> 94455201],
        oklab |-> [mode |-> "oklab", b |-> -215304, l |-> 560341, a |-> 104048],
        oklch |-> [mode |-> "oklch", h |-> 295792620, l |-> 560341, c |-> 239127] ],
      [ keys |-> {[mode |-> "rgb", r |-> 670588, g |-> 654902, b |-> 156863], [mode |-> "oklch", h |-> 107621334, l |-> 709872, c |-> 140423]},
        rgb |-> [mode |-> "rgb", r |-> 670588, g |-> 654902, b |-> 156863],
        hsl |-> [mode |-> "hsl", h |-> 58167939, s |-> 620853, l |-> 413725],
        hwb |-> [mode |-> "hwb", b |-> 329412, h |-> 58167939, w |-> 156863],
        lab |-> [mode |-> "lab", b |-> 60740367, l |-> 67195980, a |-> -9062535],
        lch |-> [mode |-> "lch", h |-> 98485999, l |-> 67195980, c |-> 61412716],
        oklab |-> [mode |-> "oklab", b |-> 133834, l |-> 709872, a |-> -42509],
        oklch |-> [mode |-> "oklch", h |-> 107621334, l |-> 709872, c |-> 140423] ],
      [ keys |-> {[mode |-> "rgb", r |-> 815686, g |-> 47059, b |-> 388235], [mode |-> "oklch", h |-> 4462758, l |-> 554925, c |-> 218795]},
        rgb |-> [mode |-> "rgb", r |-> 815686, g |-> 47059, b |-> 388235],
        hsl |-> [mode |-> "hsl", h |-> 333367347, s |-> 890909, l |-> 431373],
        hwb |-> [mode |-> "hwb", b |-> 184314, h |-> 333367347, w |-> 47059],
        lab |-> [mode |-> "lab", b |-> 8001951, l |-> 45707858, a |-> 70663551],
        lch |-> [mode |-> "lch", h |-> 6460661, l |-> 45707858, c |-> 71115178],
        oklab |-> [mode |-> "oklab", b |-> 17025, l |-> 554925, a |-> 218132],
        oklch |-> [mode |-> "oklch", h |-> 4462758, l |-> 554925, c |-> 218795] ],
      [ keys |-> {[mode |-> "rgb", r |-> 960784, g |-> 443137, b |-> 619608], [mode |-> "oklch", h |-> 762886, l |-> 717547, c |-> 167377]},
        rgb |-> [mode |-> "rgb", r |-> 960784, g |-> 443137, b |-> 619608],
        hsl |-> [mode |-> "hsl", h |-> 339545455, s |-> 868421, l |-> 701961],
        hwb |-> [mode |-> "hwb", b |-> 39216, h |-> 339545455, w |-> 443137],
        lab |-> [mode |-> "lab", b |-> 1586545, l |-> 65142049, a |-> 54781993],
        lch |-> [mode |-> "lch", h |-> 1658883, l |-> 65142049, c |-> 54804962],
        oklab |-> [mode |-> "oklab", b |-> 2229, l |-> 717547, a |-> 167363],
        oklch |-> [mode |-> "oklch", h |-> 762886, l |-> 717547, c |-> 167377] ],
      [ keys |-> {[mode |-> "rgb", r |-> 101961, g |-> 839216, b |-> 850980], [mode |-> "oklch", h |-> 196658870, l |-> 795694, c |-> 132515]},
        rgb |-> [mode |-> "rgb", r |-> 101961, g |-> 839216, b |-> 850980],
        hsl |-> [mode |-> "hsl", h |-> 180942408, s |-> 786008, l |-> 476471],
        hwb |-> [mode |-> "hwb", b |-> 149020, h |-> 180942408, w |-> 101961],
        lab |-> [mode |-> "lab", b |-> -14368415, l |-> 77663539, a |-> -42773239],
        lch |-> [mode |-> "lch", h |-> 198568264, l |-> 77663539, c |-> 45122072],
        oklab |-> [mode |-> "oklab", b |-> -37988, l |-> 795694, a |-> -126953],
        oklch |-> [mode |-> "oklch", h |-> 196658870, l |-> 795694, c |-> 132515] ],
      [ keys |-> {[mode |-> "rgb", r |-> 247059, g |-> 231373, b |-> 78431], [mode |-> "oklch", h |-> 103470225, l |-> 347123, c |-> 57256]},
        rgb |-> [mode |-> "rgb", r |-> 247059, g |-> 231373, b |-> 78431],
        hsl |-> [mode |-> "hsl", h |-> 54418605, s |-> 518072, l |-> 162745],
        hwb |-> [mode |-> "hwb", b |-> 752941, h |-> 54418605, w |-> 78431],
        lab |-> [mode |-> "lab", b |-> 24141009, l |-> 24587847, a |-> -2558981],
        lch |-> [mode |-> "lch", h |-> 96050837, l |-> 24587847, c |-> 24276258],
        oklab |-> [mode |-> "oklab", b |-> 55681, l |-> 347123, a |-> -13337],
        oklch |-> [mode |-> "oklch", h |-> 103470225, l |-> 347123, c |-> 57256] ],
      [ keys |-> {[mode |-> "rgb", r |-> 392157, g |-> 627451, b |-> 309804], [mode |-> "oklch", h |-> 138133102, l |-> 645388, c |-> 129539]},
        rgb |-> [mode |-> "rgb", r |-> 392157, g |-> 627451, b |-> 309804],
        hsl |-> [mode |-> "hsl", h |-> 104444444, s |-> 338912, l |-> 468627],
        hwb |-> [mode |-> "hwb", b |-> 372549, h |-> 104444444, w |-> 309804],
        lab |-> [mode |-> "lab", b |-> 35462842, l |-> 60346980, a |-> -32057354],
        lch |-> [mode |-> "lch", h |-> 132112643, l |-> 60346980, c |-> 47804677],
        oklab |-> [mode |-> "oklab", b |-> 86454, l |-> 645388, a |-> -96467],
        oklch |-> [mode |-> "oklch", h |-> 138133102, l |-> 645388, c |-> 129539] ],
      [ keys |-> {[mode |-> "rgb", r |-> 537255, g |-> 19608, b |-> 541176], [mode |-> "oklch", h |-> 327947697, l |-> 444480, c |-> 201588]},
        rgb |-> [mode |-> "rgb", r |-> 537255, g |-> 19608, b |-> 541176],
        hsl |-> [mode |-> "hsl", h |-> 299548872, s |-> 930070, l |-> 280392],
        hwb |-> [mode |-> "hwb", b |-> 458824, h |-> 299548872, w |-> 19608],
        lab |-> [mode |-> "lab", b |-> -38266272, l |-> 32292133, a |-> 58356760],
        lch |-> [mode |-> "lch", h |-> 326745947, l |-> 32292133, c |-> 69784088],
        oklab |-> [mode |-> "oklab", b |-> -106981, l |-> 444480, a |-> 170859],
        oklch |-> [mode |-> "oklch", h |-> 327947697, l |-> 444480, c |-> 201588] ],
      [ keys |-> {[mode |-> "rgb", r |-> 682353, g |-> 415686, b |-> 772549], [mode |-> "oklch", h |-> 317129035, l |-> 633145, c |-> 149403]},
        rgb |-> [mode |-> "rgb", r |-> 682353, g |-> 415686, b |-> 772549],
        hsl |-> [mode |-> "hsl", h |-> 284835165, s |-> 439614, l |-> 594118],
        hwb |-> [mode |-> "hwb", b |-> 227451, h |-> 284835165, w |-> 415686],
        lab |-> [mode |-> "lab", b |-> -36734716, l |-> 55210556, a |-> 39212323],
        lch |-> [mode |-> "lch", h |-> 316868487, l |-> 55210556, c |-> 53731235],
        oklab |-> [mode |-> "oklab", b |-> -101646, l |-> 633145, a |-> 109496],
        oklch |-> [mode |-> "oklch", h |-> 317129035, l |-> 633145, c |-> 149403] ],
      [ keys |-> {[mode |-> "oklch", h |-> -30000000, l |-> 600000, c |-> 100000]},
        rgb |-> [mode |-> "rgb", r |-> 634520, g |-> 413989, b |-> 614222],
        hsl |-> [mode |-> "hsl", h |-> 305522426, s |-> 231774, l |-> 524254],
        hwb |-> [mode |-> "hwb", b |-> 365480, h |-> 305522426, w |-> 413989],
        lab |-> [mode |-> "lab", b |-> -18287508, l |-> 52167527, a |-> 29252972],
        lch |-> [mode |-> "lch", h |-> 327988420, l |-> 52167527, c |-> 34498831],
        oklab |-> [mode |-> "oklab", b |-> -50000, l |-> 600000, a |-> 86603],
        oklch |-> [mode |-> "oklch", h |-> -30000000, l |-> 600000, c |-> 100000] ],
      [ keys |-> {[mode |-> "oklch", h |-> 390000000, l |-> 600000, c |-> 100000]},
        rgb |-> [mode |-> "rgb", r |-> 706396, g |-> 408571, b |-> 360762],
        hsl |-> [mode |-> "hsl", h |-> 8299286, s |-> 370517, l |-> 533579],
        hwb |-> [mode |-> "hwb", b |-> 293604, h |-> 8299286, w |-> 360762],
        lab |-> [mode |-> "lab", b |-> 20735313, l |-> 52709475, a |-> 30206195],
        lch |-> [mode |-> "lch", h |-> 34468000, l |-> 52709475, c |-> 36638332],
        oklab |-> [mode |-> "oklab", b |-> 50000, l |-> 600000, a |-> 86603],
        oklch |-> [mode |-> "oklch", h |-> 390000000, l |-> 600000, c |-> 100000] ],
      [ keys |-> {[mode |-> "oklch", h |-> 725500000, l |-> 600000, c |-> 100000]},
        rgb |-> [mode |-> "rgb", r |-> 698331, g |-> 398619, b |-> 468707],
        hsl |-> [mode |-> "hsl", h |-> 345969002, s |-> 331889, l |-> 548475],
        hwb |-> [mode |-> "hwb", b |-> 301669, h |-> 345969002, w |-> 398619],
        lab |-> [mode |-> "lab", b |-> 4130551, l |-> 52397185, a |-> 33000484],
        lch |-> [mode |-> "lch", h |-> 7134403, l |-> 52397185, c |-> 33257983],
        oklab |-> [mode |-> "oklab", b |-> 9585, l |-> 600000, a |-> 99540],
        oklch |-> [mode |-> "oklch", h |-> 725500000, l |-> 600000, c |-> 100000] ],
      [ keys |-> {[mode |-> "oklch", h |-> -20000, l |-> 600000, c |-> 100000]},
        rgb |-> [mode |-> "rgb", r |-> 692299, g |-> 398842, b |-> 492878],
        hsl |-> [mode |-> "hsl", h |-> 340773509, s |-> 322885, l |-> 545571],
        hwb |-> [mode |-> "hwb", b |-> 307701, h |-> 340773509, w |-> 398842],
        lab |-> [mode |-> "lab", b |-> 384713, l |-> 52342452, a |-> 32992581],
        lch |-> [mode |-> "lch", h |-> 668072, l |-> 52342452, c |-> 32994823],
        oklab |-> [mode |-> "oklab", b |-> -35, l |-> 600000, a |-> 100000],
        oklch |-> [mode |-> "oklch", h |-> -20000, l |-> 600000, c |-> 100000] ],
      [ keys |-> {[mode |-> "oklch", h |-> 30000000, l |-> NaN, c |-> 100000]},
        rgb |-> [mode |-> "rgb", r |-> NaN, g |-> NaN, b |-> NaN],
        hsl |-> [mode |-> "hsl", h |-> NaN, s |-> NaN, l |-> NaN],
        hwb |-> [mode |-> "hwb", b |-> NaN, h |-> NaN, w |-> NaN],
        lab |-> [mode |-> "lab", b |-> NaN, l |-> NaN, a |-> NaN],
        lch |-> [mode |-> "lch", h |-> NaN, l |-> NaN, c |-> NaN],
        oklab |-> [mode |-> "oklab", b |-> NaN, l |-> NaN, a |-> NaN],
        oklch |-> [mode |-> "oklch", h |-> 30000000, l |-> NaN, c |-> 100000] ],
      [ keys |-> {[mode |-> "oklch", h |-> 30000000, l |-> Infinity, c |-> 100000]},
        rgb |-> [mode |-> "rgb", r |-> NaN, g |-> NaN, b |-> NaN],
        hsl |-> [mode |-> "hsl", h |-> NaN, s |-> NaN, l |-> NaN],
        hwb |-> [mode |-> "hwb", b |-> NaN, h |-> NaN, w |-> NaN],
        lab |-> [mode |-> "lab", b |-> NaN, l |-> NaN, a |-> NaN],
        lch |-> [mode |-> "lch", h |-> NaN, l |-> NaN, c |-> NaN],
        oklab |-> [mode |-> "oklab", b |-> NaN, l |-> NaN, a |-> NaN],
        oklch |-> [mode |-> "oklch", h |-> 30000000, l |-> Infinity, c |-> 100000] ],
      [ keys |-> {[mode |-> "oklch", h |-> NaN, l |-> 600000, c |-> 100000]},
        rgb |-> [mode |-> "rgb", r |-> NaN, g |-> NaN, b |-> NaN],
        hsl |-> [mode |-> "hsl", h |-> NaN, s |-> NaN, l |-> NaN],
        hwb |-> [mode |-> "hwb", b |-> NaN, h |-> NaN, w |-> NaN],
        lab |-> [mode |-> "lab", b |-> NaN, l |-> NaN, a |-> NaN],
        lch |-> [mode |-> "lch", h |-> NaN, l |-> NaN, c |-> NaN],
        oklab |-> [mode |-> "oklab", b |-> NaN, l |-> NaN, a |-> NaN],
        oklch |-> [mode |-> "oklch", h |-> NaN, l |-> 600000, c |-> 100000] ],
      [ keys |-> {[mode |-> "oklch", h |-> Infinity, l |-> 600000, c |-> 100000]},
        rgb |-> [mode |-> "rgb", r |-> NaN, g |-> NaN, b |-> NaN],
        hsl |-> [mode |-> "hsl", h |-> NaN, s |-> NaN, l |-> NaN],
        hwb |-> [mode |-> "hwb", b |-> NaN, h |-> NaN, w |-> NaN],
        lab |-> [mode |-> "lab", b |-> NaN, l |-> NaN, a |-> NaN],
        lch |-> [mode |-> "lch", h |-> NaN, l |-> NaN, c |-> NaN],
        oklab |-> [mode |-> "oklab", b |-> NaN, l |-> NaN, a |-> NaN],
        oklch |-> [mode |-> "oklch", h |-> Infinity, l |-> 600000, c |-> 100000] ],
      [ keys |-> {[mode |-> "oklch", h |-> NegInfinity, l |-> 600000, c |-> 100000]},
        rgb |-> [mode |-> "rgb", r |-> NaN, g |-> NaN, b |-> NaN],
        hsl |-> [mode |-> "hsl", h |-> NaN, s |-> NaN, l |-> NaN],
        hwb |-> [mode |-> "hwb", b |-> NaN, h |-> NaN, w |-> NaN],
        lab |-> [mode |-> "lab", b |-> NaN, l |-> NaN, a |-> NaN],
        lch |-> [mode |-> "lch", h |-> NaN, l |-> NaN, c |-> NaN],
        oklab |-> [mode |-> "oklab", b |-> NaN, l |-> NaN, a |-> NaN],
        oklch |-> [mode |-> "oklch", h |-> NegInfinity, l |-> 600000, c |-> 100000] ],
      [ keys |-> {[mode |-> "oklch", h |-> 30000000, l |-> 600000, c |-> NaN]},
        rgb |-> [mode |-> "rgb", r |-> NaN, g |-> NaN, b |-> NaN],
        hsl |-> [mode |-> "hsl", h |-> NaN, s |-> NaN, l |-> NaN],
        hwb |-> [mode |-> "hwb", b |-> NaN, h |-> NaN, w |-> NaN],
        lab |-> [mode |-> "lab", b |-> NaN, l |-> NaN, a |-> NaN],
        lch |-> [mode |-> "lch", h |-> NaN, l |-> NaN, c |-> NaN],
        oklab |-> [mode |-> "oklab", b |-> NaN, l |-> NaN, a |-> NaN],
        oklch |-> [mode |-> "oklch", h |-> 30000000, l |-> 600000, c |-> NaN] ],
      [ keys |-> {[mode |-> "rgb", r |-> 250980, g |-> 501961, b |-> 749020], [mode |-> "oklch", h |-> 250170254, l |-> 586659, c |-> 117380]},
        rgb |-> [mode |-> "rgb", r |-> 250980, g |-> 501961, b |-> 749020],
        hsl |-> [mode |-> "hsl", h |-> 209763780, s |-> 498039, l |-> 500000],
        hwb |-> [mode |-> "hwb", b |-> 250980, h |-> 209763780, w |-> 250980],
        lab |-> [mode |-> "lab", b |-> -39768027, l |-> 51580420, a |-> -5521256],
        lch |-> [mode |-> "lch", h |-> 262095779, l |-> 51580420, c |-> 40149474],
        oklab |-> [mode |-> "oklab", b |-> -110420, l |-> 586659, a |-> -39818],
        oklch |-> [mode |-> "oklch", h |-> 250170254, l |-> 586659, c |-> 117380] ]
    }

ParseTexts == {CuloriParse[i][1] : i \in 1..Len(CuloriParse)}

parse(text) == (CHOOSE e \in {CuloriParse[i] : i \in 1..Len(CuloriParse)} : e[1] = text)[2]

StripAlpha(clr) == [k \in DOMAIN clr \ {"alpha"} |-> clr[k]]

CarryAlpha(res, clr) ==
    IF "alpha" \in DOMAIN clr
    THEN [k \in DOMAIN res \cup {"alpha"} |-> IF k = "alpha" THEN clr.alpha ELSE res[k]]
    ELSE res

(* the colour spaces culori has converters for, as far as the tools use them *)
CuloriModes == {"rgb", "hsl", "hwb", "lab", "lch", "oklab", "oklch", "p3"}

(* converter(target)(color): undefined for no colour and for a colour in a
   space culori has no converter from, the colour itself when it is already
   in the target space, else the tabulated conversion, alpha kept *)
converter(target, clr) ==
    IF clr = Null THEN Null
    ELSE IF clr.mode \notin CuloriModes THEN Null
    ELSE IF clr.mode = target THEN clr
    ELSE LET row == CHOOSE row \in CuloriRows : StripAlpha(clr) \in row.keys
         IN CarryAlpha(row[target], clr)

toRgb(clr) == converter("rgb", clr)

(***************************************************************************)
(* Math.pow(base, 2.4) = base^2 * (base^2)^(1/5), the fifth root found by  *)
(* bisection on the fixed-point fifth power.                               *)
(***************************************************************************)
Pow5(r) == MulFix(MulFix(MulFix(MulFix(r, r), r), r), r)

RECURSIVE Root5(_, _, _)
Root5(v, lo, hi) ==
    IF hi - lo <= 1 THEN lo
    ELSE LET mid == (lo + hi) \div 2
         IN IF Pow5(mid) <= v THEN Root5(v, mid, hi) ELSE Root5(v, lo, mid)

(* a display gamma of 2.2 in place of the sRGB exponent 2.4 *)
MathPow22(base) ==
    LET sq == MulFix(base, base)
    IN MulFix(sq, Root5(base, 0, 4 * Scale))

MathPow24(base) ==
    LET sq == MulFix(base, base)
    IN MulFix(sq, Root5(sq, 0, 4 * Scale))

(***************************************************************************)
(* contrast-checker.tsx                                                    *)
(***************************************************************************)
Linearize(c) ==
    IF c <= 39280
    THEN IF c >= 0 THEN (c * 100) \div 1292 ELSE -(((-c) * 100) \div 1292)
    ELSE MathPow24(((c + 55000) * 200) \div 211)

Channel(rgb, k) == IF k \in DOMAIN rgb THEN rgb[k] ELSE 0

(* the blue weight mistyped as 0.0772 *)
getLuminanceMistypedWeight(clr) ==
    LET rgb == toRgb(clr)
    IN IF rgb = Null THEN 0
       ELSE LET lr == Linearize(Channel(rgb, "r"))
                lg == Linearize(Channel(rgb, "g"))
                lb == Linearize(Channel(rgb, "b"))
            IN MulFix(212600, lr) + MulFix(715200, lg) + MulFix(77200, lb)

getLuminance(clr) ==
    LET rgb == toRgb(clr)
    IN IF rgb = Null THEN 0
       ELSE LET lr == Linearize(Channel(rgb, "r"))
                lg == Linearize(Channel(rgb, "g"))
                lb == Linearize(Channel(rgb, "b"))
            IN MulFix(212600, lr) + MulFix(715200, lg) + MulFix(72200, lb)

(* the first colour taken for the lighter one *)
getContrastUnordered(c1, c2) ==
    DivFix(getLuminance(c1) + 50000, getLuminance(c2) + 50000)

getContrast(c1, c2) ==
    LET l1 == getLuminance(c1)
        l2 == getLuminance(c2)
        lighter == Max(l1, l2)
        darker == Min(l1, l2)
    IN DivFix(lighter + 50000, darker + 50000)

DEFAULT_FOREGROUND == "#000000"
DEFAULT_BACKGROUND == "#FFFFFF"

(* no guard on the parse results: getLuminance's fallback decides *)
contrastUnguarded(fg_text, bg_text) ==
    LET lum(c) == IF c = Null THEN 0 ELSE getLuminance(c)
        l1 == lum(parse(fg_text))
        l2 == lum(parse(bg_text))
    IN DivFix(Max(l1, l2) + 50000, Min(l1, l2) + 50000)

contrast(fg_text, bg_text) ==
    LET fg == parse(fg_text)
        bg == parse(bg_text)
    IN IF fg = Null \/ bg = Null THEN 0 ELSE getContrast(fg, bg)

(* a strict comparison *)
getRatingStrict(r, threshold) == IF r > threshold THEN "Pass" ELSE "Fail"

getRating(r, threshold) == IF r >= threshold THEN "Pass" ELSE "Fail"

ratings(c) ==
    [ aaNormal  |-> getRating(c, 4500000),
      aaLarge   |-> getRating(c, 3000000),
      aaaNormal |-> getRating(c, 7000000),
      aaaLarge  |-> getRating(c, 4500000) ]

(* Number.prototype.toFixed(digits), 0 <= digits <= 6: round half up on the
   magnitude, the sign kept; a number that is not finite gives its name *)
PadLeft(s, n) == IF Len(s) >= n THEN s ELSE SubSeq("000000", 1, n - Len(s)) \o s

toFixed(v, digits) ==
    IF isNaN(v) THEN "NaN"
    ELSE IF v = Infinity THEN "Infinity"
    ELSE IF v = NegInfinity THEN "-Infinity"
    ELSE
    LET n == (Abs(v) + 5 * 10^(5 - digits)) \div 10^(6 - digits)
        int == ToString(n \div 10^digits)
        frac == IF digits = 0 THEN "" ELSE "." \o PadLeft(ToString(n % 10^digits), digits)
    IN (IF v < 0 THEN "-" ELSE "") \o int \o frac

(* the texts typed or picked into the two colour inputs *)
ContrastTexts ==
    { "#000000", "#FFFFFF", "#777777", "#767676", "#6366f1", "hsl(210, 50%, 50%)",
      "red", "rgb(300 300 300)", "color(display-p3 0 1 0)", "", "not-a-color", "#12" }

NoSwap == <<"", "">>

setForeground(value) ==
    /\ foreground' = value
    /\ swaps' = 0
    /\ swapFrom' = NoSwap
    /\ UNCHANGED <<background, exceptContrast>>

setBackground(value) ==
    /\ background' = value
    /\ swaps' = 0
    /\ swapFrom' = NoSwap
    /\ UNCHANGED <<foreground, exceptContrast>>

(* the second assignment reading the foreground the first one wrote *)
handleSwapSequential ==
    /\ foreground' = background
    /\ background' = background
    /\ swaps' = IF swaps = 2 THEN 1 ELSE swaps + 1
    /\ swapFrom' = IF swaps = 1 THEN swapFrom ELSE <<foreground, background>>
    /\ UNCHANGED exceptContrast

handleSwap ==
    /\ foreground' = background
    /\ background' = foreground
    /\ swaps' = IF swaps = 2 THEN 1 ELSE swaps + 1
    /\ swapFrom' = IF swaps = 1 THEN swapFrom ELSE <<foreground, background>>
    /\ UNCHANGED exceptContrast

(***************************************************************************)
(* color-converter.tsx: formatting helpers                                 *)
(***************************************************************************)
toOklch(c) == converter("oklch", c)
toHsl(c) == converter("hsl", c)
toHwb(c) == converter("hwb", c)
toLab(c) == converter("lab", c)
toLch(c) == converter("lch", c)
toOklab(c) == converter("oklab", c)

DEFAULT_SWATCH == "#6366f1"

FALLBACK_COLOR ==
    [mode |-> "oklch", l |-> 650000, c |-> 160000, h |-> 264 * Scale, alpha |-> Scale]

COLOR_FORMATS ==
    <<"hex", "rgb", "rgba", "hsl", "hsla", "hwb", "lab", "lch", "oklab", "oklch">>

FormatId == {COLOR_FORMATS[i] : i \in 1..Len(COLOR_FORMATS)}

Field(obj, k) == IF k \in DOMAIN obj THEN obj[k] ELSE Undefined

(* value ?? fallback *)
Coalesce(value, fallback) == IF value = Undefined THEN fallback ELSE value

(* clamp(value), with the defaults min = 0 and max = 1; Math.max(undefined, 0)
   is NaN *)
clamp(value) ==
    IF isNaN(value) THEN 0
    ELSE IF value = Undefined THEN NaN
    ELSE Min(Max(value, 0), Scale)

(* the % of JavaScript: the remainder has the sign of the dividend *)
JsRem(a, b) == IF a >= 0 THEN a % b ELSE -((-a) % b)

normalizeHue(hue) ==
    IF ~isFinite(hue) THEN 0
    ELSE LET normalized == JsRem(hue, 360 * Scale)
         IN IF normalized >= 0 THEN normalized ELSE normalized + 360 * Scale

Last(s) == SubSeq(s, Len(s), Len(s))
Front(s) == SubSeq(s, 1, Len(s) - 1)

RECURSIVE DropZeros(_)
DropZeros(s) == IF Len(s) > 0 /\ Last(s) = "0" THEN DropZeros(Front(s)) ELSE s

(* value.replace(/(\.\d*?[1-9])0+$|\.0+$/u, "$1"): the zeros that end the
   fraction go, and the point with them when nothing is left of the fraction *)
trimTrailingZeros(value) ==
    IF \A i \in 1..Len(value) : SubSeq(value, i, i) # "." THEN value
    ELSE LET t == DropZeros(value)
         IN IF Last(t) = "." THEN Front(t) ELSE t

formatDecimal(value, decimals) == trimTrailingZeros(toFixed(value, decimals))

formatPercent(value) ==
    LET clamped == clamp(value)
    IN trimTrailingZeros(toFixed(IF isNaN(clamped) THEN NaN ELSE clamped * 100, 2)) \o "%"

(* the alpha formatted as it is stored, without clamp *)
formatAlphaUnclamped(value) == formatDecimal(value, 3)

formatAlpha(value) == formatDecimal(clamp(value), 3)

RECURSIVE TrimLeft(_)
TrimLeft(s) == IF Len(s) > 0 /\ SubSeq(s, 1, 1) = " " THEN TrimLeft(Tail(s)) ELSE s

RECURSIVE TrimRight(_)
TrimRight(s) == IF Len(s) > 0 /\ Last(s) = " " THEN TrimRight(Front(s)) ELSE s

(* String.prototype.trim, for the blanks the input texts hold *)
trim(s) == TrimRight(TrimLeft(s))

(* the parse result stored in the space it was written in *)
parseToCanonicalKeepsMode(input) ==
    LET parsed == parse(trim(input))
    IN IF parsed = Null THEN Null
       ELSE LET alpha == IF "alpha" \in DOMAIN parsed
                         THEN clamp(Coalesce(parsed.alpha, Scale))
                         ELSE Scale
            IN [k \in DOMAIN parsed \cup {"alpha"} |->
                   IF k = "alpha" THEN alpha ELSE parsed[k]]

parseToCanonical(input) ==
    LET parsed == parse(trim(input))
    IN IF parsed = Null THEN Null
       ELSE LET oklch == toOklch(parsed)
            IN IF oklch = Null THEN Null
               ELSE LET alpha == IF "alpha" \in DOMAIN oklch
                                 THEN clamp(Coalesce(oklch.alpha, Scale))
                                 ELSE Scale
                    IN [k \in DOMAIN oklch \cup {"alpha"} |->
                           IF k = "alpha" THEN alpha ELSE oklch[k]]

(* Math.floor in place of Math.round *)
Channel255Floor(value) == (clamp(value) * 255) \div Scale

(* Math.round(clamp(value) * 255) *)
Channel255(value) == (clamp(value) * 255 + Scale \div 2) \div Scale

HexDigit(d) == SubSeq("0123456789abcdef", d + 1, d + 1)

(* Number.prototype.toString(16) for 0..255 *)
toString16(n) == IF n < 16 THEN HexDigit(n) ELSE HexDigit(n \div 16) \o HexDigit(n % 16)

UpperChar(ch) ==
    CASE ch = "a" -> "A" [] ch = "b" -> "B" [] ch = "c" -> "C"
      [] ch = "d" -> "D" [] ch = "e" -> "E" [] ch = "f" -> "F"
      [] OTHER -> ch

RECURSIVE toUpperCase(_)
toUpperCase(s) ==
    IF Len(s) = 0 THEN s ELSE UpperChar(SubSeq(s, 1, 1)) \o toUpperCase(Tail(s))

(* padStart(2, "0") left out *)
toChannelUnpadded(value) == toUpperCase(toString16(Channel255(value)))

toChannel(value) == toUpperCase(PadLeft(toString16(Channel255(value)), 2))

colorToHex(c) ==
    LET rgb == toRgb(c)
    IN IF rgb = Null THEN "#000000"
       ELSE "#" \o toChannel(rgb.r) \o toChannel(rgb.g) \o toChannel(rgb.b)

colorToRgba(c) ==
    LET rgb == toRgb(c)
    IN IF rgb = Null THEN "rgba(0, 0, 0, 1)"
       ELSE LET alpha == formatAlpha(IF "alpha" \in DOMAIN rgb
                                     THEN Coalesce(rgb.alpha, Scale) ELSE Scale)
            IN "rgba(" \o ToString(Channel255(rgb.r)) \o ", "
                  \o ToString(Channel255(rgb.g)) \o ", "
                  \o ToString(Channel255(rgb.b)) \o ", " \o alpha \o ")"

(* every fallback structure opaque, as the RGB one is *)
SafeOpaque(converted, fallback) ==
    IF converted = Null THEN [fallback EXCEPT !.alpha = Scale] ELSE converted

(* conversion ?? fallback structure *)
Safe(converted, fallback) == IF converted = Null THEN fallback ELSE converted

formatValues(c) ==
    LET alpha == IF "alpha" \in DOMAIN c THEN Coalesce(c.alpha, Scale) ELSE Scale
        safeRgb == Safe(toRgb(c), [r |-> 0, g |-> 0, b |-> 0, alpha |-> Scale])
        safeHsl == Safe(toHsl(c), [h |-> 0, s |-> 0, l |-> 0, alpha |-> alpha])
        safeHwb == Safe(toHwb(c), [h |-> 0, w |-> 0, b |-> 0, alpha |-> alpha])
        safeLab == Safe(toLab(c), [l |-> 0, a |-> 0, b |-> 0, alpha |-> alpha])
        safeLch == Safe(toLch(c), [l |-> 0, c |-> 0, h |-> 0, alpha |-> alpha])
        safeOklab == Safe(toOklab(c), [l |-> 0, a |-> 0, b |-> 0, alpha |-> alpha])
        safeOklch == Safe(Safe(toOklch(c), c), [l |-> 0, c |-> 0, h |-> 0, alpha |-> alpha])
        A(obj) == formatAlpha(Coalesce(Field(obj, "alpha"), alpha))
        N(obj, k) == Coalesce(Field(obj, k), 0)
        r == ToString(Channel255(safeRgb.r))
        g == ToString(Channel255(safeRgb.g))
        b == ToString(Channel255(safeRgb.b))
        hslH == formatDecimal(normalizeHue(Field(safeHsl, "h")), 1)
        hslS == formatPercent(safeHsl.s)
        hslL == formatPercent(safeHsl.l)
    IN [ hex   |-> colorToHex(c),
         rgb   |-> "rgb(" \o r \o ", " \o g \o ", " \o b \o ")",
         rgba  |-> "rgba(" \o r \o ", " \o g \o ", " \o b \o ", " \o A(safeRgb) \o ")",
         hsl   |-> "hsl(" \o hslH \o ", " \o hslS \o ", " \o hslL \o ")",
         hsla  |-> "hsla(" \o hslH \o ", " \o hslS \o ", " \o hslL \o ", "
                      \o A(safeHsl) \o ")",
         hwb   |-> "hwb(" \o formatDecimal(normalizeHue(Field(safeHwb, "h")), 1) \o " "
                      \o formatPercent(safeHwb.w) \o " " \o formatPercent(safeHwb.b)
                      \o " / " \o A(safeHwb) \o ")",
         lab   |-> "lab(" \o formatDecimal(N(safeLab, "l"), 2) \o " "
                      \o formatDecimal(N(safeLab, "a"), 3) \o " "
                      \o formatDecimal(N(safeLab, "b"), 3) \o " / " \o A(safeLab) \o ")",
         lch   |-> "lch(" \o formatDecimal(N(safeLch, "l"), 2) \o " "
                      \o formatDecimal(N(safeLch, "c"), 3) \o " "
                      \o formatDecimal(normalizeHue(Field(safeLch, "h")), 1)
                      \o " / " \o A(safeLch) \o ")",
         oklab |-> "oklab(" \o formatDecimal(N(safeOklab, "l"), 3) \o " "
                      \o formatDecimal(N(safeOklab, "a"), 4) \o " "
                      \o formatDecimal(N(safeOklab, "b"), 4) \o " / " \o A(safeOklab) \o ")",
         oklch |-> "oklch(" \o formatDecimal(N(safeOklch, "l"), 3) \o " "
                      \o formatDecimal(N(safeOklch, "c"), 4) \o " "
                      \o formatDecimal(normalizeHue(Field(safeOklch, "h")), 1)
                      \o " / " \o A(safeOklch) \o ")" ]

(* the texts typed into a field, the values the colour picker reports and
   the values the opacity slider reports *)
TypedTexts == {"hsl(210, 50%, 50%)", " rgba(255, 0, 0, 0.5) ", "not-a-color"}
PickerValues == {"#ffffff"}
SliderValues ==
    {0, Scale \div 2, Scale, Scale + Scale \div 2, -(Scale \div 4), NaN, Undefined}

(* parseToCanonical and formatValues are pure: their values on the input
   texts, and on the colours those texts and the slider can produce, are
   computed once and looked up by the handlers *)
InputTexts == ParseTexts \cup TypedTexts \cup PickerValues

Parsed == [text \in InputTexts |-> parseToCanonical(text)]

SetAlpha(base, a) ==
    [k \in DOMAIN base \cup {"alpha"} |-> IF k = "alpha" THEN a ELSE base[k]]

Colors ==
    LET parsed == {Parsed[text] : text \in InputTexts} \ {Null}
    IN parsed \cup {SetAlpha(p, clamp(a)) : p \in parsed, a \in {v \in SliderValues : isFinite(v)}}

Rendered == [c \in Colors |-> formatValues(c)]

INITIAL_COLOR ==
    IF Parsed[DEFAULT_SWATCH] # Null THEN Parsed[DEFAULT_SWATCH] ELSE FALLBACK_COLOR

INITIAL_VALUES == Rendered[INITIAL_COLOR]

NoErrors == [f \in {} |-> ""]

(* the useMemo values derived from the colour c *)
previewColor(c) == colorToRgba(c)
pickerColor(c) == colorToHex(c)
alphaValue(c) == IF "alpha" \in DOMAIN c THEN clamp(Coalesce(c.alpha, Scale)) ELSE Scale

(***************************************************************************)
(* color-converter.tsx: the handlers.  setColor always installs a new      *)
(* object, so the [color] effect runs with the render that follows it and  *)
(* is part of the step: it re-renders the ten drafts and empties the       *)
(* errors.                                                                 *)
(***************************************************************************)
(* the [color] effect left out: the drafts stay as they are *)
setColorWithoutEffect(next) ==
    /\ color' = next
    /\ inputErrors' = NoErrors
    /\ UNCHANGED inputValues

setColor(next) ==
    /\ color' = next
    /\ inputValues' = Rendered[next]
    /\ inputErrors' = NoErrors

(* the fields the model types into; every field can be committed *)
EditedFormats == {"hex", "hsl", "lab"}

Drafts == {f \in FormatId : inputValues[f] \in TypedTexts}

handlePickerChange(value) ==
    LET next == Parsed[value]
    IN /\ next # Null
       /\ setColor(next)
       /\ lastEvent' = <<"handlePickerChange", "">>
       /\ UNCHANGED exceptConverter

(* history: the value the slider reported, as text *)
SliderText(next) == IF next = Undefined THEN "undefined" ELSE toFixed(next, 2)

(* the slider's reading of "no update" (values[0] is no number, or NaN) left
   out: the colour is replaced whatever the value *)
handleAlphaSliderChangeUnguarded(next) ==
    LET base == IF toOklch(color) # Null THEN toOklch(color) ELSE FALLBACK_COLOR
        a == IF isFinite(next) THEN clamp(next) ELSE 0
    IN /\ setColor(SetAlpha(base, a))
       /\ lastEvent' = <<"handleAlphaSliderChange", SliderText(next)>>
       /\ UNCHANGED exceptConverter

(* the value stored as it comes, without clamp *)
handleAlphaSliderChangeUnclamped(next) ==
    LET base == IF toOklch(color) # Null THEN toOklch(color) ELSE FALLBACK_COLOR
    IN /\ IF next = Undefined \/ isNaN(next)
          THEN UNCHANGED <<color, inputValues, inputErrors>>
          ELSE /\ color' = SetAlpha(base, next)
               /\ inputValues' = formatValues(SetAlpha(base, next))
               /\ inputErrors' = NoErrors
       /\ lastEvent' = <<"handleAlphaSliderChange", SliderText(next)>>
       /\ UNCHANGED exceptConverter

handleAlphaSliderChange(next) ==
    LET base == IF toOklch(color) # Null THEN toOklch(color) ELSE FALLBACK_COLOR
    IN /\ IF next = Undefined \/ isNaN(next)
          THEN UNCHANGED <<color, inputValues, inputErrors>>
          ELSE setColor(SetAlpha(base, clamp(next)))
       /\ lastEvent' = <<"handleAlphaSliderChange", SliderText(next)>>
       /\ UNCHANGED exceptConverter

(* the error object rebuilt without spreading the previous errors *)
applyInputDropsErrors(format) ==
    LET raw == inputValues[format]
        parsed == Parsed[raw]
    IN /\ trim(raw) \in ParseTexts
       /\ IF parsed # Null
          THEN setColor(parsed)
          ELSE /\ inputErrors' = [f \in {format} |-> "Unrecognized color value."]
               /\ UNCHANGED <<color, inputValues>>
       /\ lastEvent' = <<"applyInput", format>>
       /\ UNCHANGED exceptConverter

(* onBlur, or onKeyDown with Enter: raw is the text the field holds *)
applyInput(format) ==
    LET raw == inputValues[format]
        parsed == Parsed[raw]
    IN /\ trim(raw) \in ParseTexts
       /\ IF parsed # Null
          THEN setColor(parsed)
          ELSE /\ inputErrors' =
                     [f \in DOMAIN inputErrors \cup {format} |->
                         IF f = format THEN "Unrecognized color value." ELSE inputErrors[f]]
               /\ UNCHANGED <<color, inputValues>>
       /\ lastEvent' = <<"applyInput", format>>
       /\ UNCHANGED exceptConverter

(* every error cleared on an edit *)
handleInputChangeClearsAll(format, value) ==
    /\ inputValues' = [inputValues EXCEPT ![format] = value]
    /\ inputErrors' = NoErrors
    /\ lastEvent' = <<"handleInputChange", format>>
    /\ UNCHANGED <<color, exceptConverter>>

(* the edit that leaves the error of its field in place *)
handleInputChangeKeepsError(format, value) ==
    /\ inputValues' = [inputValues EXCEPT ![format] = value]
    /\ lastEvent' = <<"handleInputChange", format>>
    /\ UNCHANGED <<color, inputErrors, exceptConverter>>

handleInputChange(format, value) ==
    /\ inputValues' = [inputValues EXCEPT ![format] = value]
    /\ inputErrors' = [f \in DOMAIN inputErrors \ {format} |-> inputErrors[f]]
    /\ lastEvent' = <<"handleInputChange", format>>
    /\ UNCHANGED <<color, exceptConverter>>

(***************************************************************************)
(* theme-provider (src/unnamed/part_002).  Each tab of the browser runs    *)
(* one ThemeProvider; the tabs share localStorage.  A write that changes   *)
(* an item dispatches a storage event to every other document that is      *)
(* open; a tab handles its events in the order of their dispatch.  The     *)
(* system theme and resolvedTheme do not enter the stored preference and   *)
(* are left out.                                                           *)
(***************************************************************************)
THEME_STORAGE_KEY == "dev-tools-theme"
defaultTheme == "system"
storageKey == THEME_STORAGE_KEY

Themes == {"light", "dark", "system"}
Tabs == {1, 2}

(* the bound on the number of writes to localStorage *)
MaxWrites == 3

NoItem == <<>>

isValidTheme(value) == value \in {<<t>> : t \in Themes}

Mounted == {tab \in Tabs : theme[tab] # "unmounted"}

(* the browser: a storage event for every open document but the writer *)
Dispatch(writer, key, newValue) ==
    [tab \in Tabs |->
        IF tab \in Mounted /\ tab # writer
        THEN Append(inbox[tab], [key |-> key, newValue |-> newValue])
        ELSE inbox[tab]]

(* the lazy initial state of useState: the stored theme when it is valid *)
ThemeProvider(tab) ==
    /\ theme[tab] = "unmounted"
    /\ LET storedTheme == storage
       IN theme' = [theme EXCEPT ![tab] =
                       IF isValidTheme(storedTheme) THEN storedTheme[1] ELSE defaultTheme]
    /\ themeEvent' = <<"mount", tab, "">>
    /\ UNCHANGED <<storage, inbox, writes, exceptTheme>>

(* the tab is closed or reloaded: its listener goes with it *)
Unmount(tab) ==
    /\ theme[tab] # "unmounted"
    /\ theme' = [theme EXCEPT ![tab] = "unmounted"]
    /\ inbox' = [inbox EXCEPT ![tab] = <<>>]
    /\ themeEvent' = <<"unmount", tab, "">>
    /\ UNCHANGED <<storage, writes, exceptTheme>>

(* the theme kept in memory only *)
setThemeUnsaved(tab, nextTheme) ==
    /\ theme[tab] # "unmounted"
    /\ writes < MaxWrites
    /\ theme' = [theme EXCEPT ![tab] = nextTheme]
    /\ writes' = writes + 1
    /\ themeEvent' = <<"setTheme", tab, nextTheme>>
    /\ UNCHANGED <<storage, inbox, exceptTheme>>

setTheme(tab, nextTheme) ==
    /\ theme[tab] # "unmounted"
    /\ writes < MaxWrites
    /\ theme' = [theme EXCEPT ![tab] = nextTheme]
    /\ storage' = <<nextTheme>>
    /\ inbox' = IF storage = <<nextTheme>> THEN inbox
                ELSE Dispatch(tab, storageKey, <<nextTheme>>)
    /\ writes' = writes + 1
    /\ themeEvent' = <<"setTheme", tab, nextTheme>>
    /\ UNCHANGED exceptTheme

handleStorage(tab) ==
    /\ theme[tab] # "unmounted"
    /\ inbox[tab] # <<>>
    /\ LET event == Head(inbox[tab])
       IN /\ theme' = IF event.key # storageKey \/ event.newValue = NoItem
                          \/ ~isValidTheme(event.newValue)
                      THEN theme
                      ELSE [theme EXCEPT ![tab] = event.newValue[1]]
          /\ themeEvent' = <<"handleStorage", tab, event.key>>
    /\ inbox' = [inbox EXCEPT ![tab] = Tail(inbox[tab])]
    /\ UNCHANGED <<storage, writes, exceptTheme>>

(* writes by a document that runs no ThemeProvider (tab 0): a value that is
   no theme, the removal of the item, and a theme stored under another key *)
ForeignSetItem(value) ==
    /\ writes < MaxWrites
    /\ storage' = <<value>>
    /\ inbox' = IF storage = <<value>> THEN inbox ELSE Dispatch(0, storageKey, <<value>>)
    /\ writes' = writes + 1
    /\ themeEvent' = <<"setItem", 0, value>>
    /\ UNCHANGED <<theme, exceptTheme>>

ForeignRemoveItem ==
    /\ writes < MaxWrites
    /\ storage' = NoItem
    /\ inbox' = IF storage = NoItem THEN inbox ELSE Dispatch(0, storageKey, NoItem)
    /\ writes' = writes + 1
    /\ themeEvent' = <<"removeItem", 0, "">>
    /\ UNCHANGED <<theme, exceptTheme>>

ForeignOtherKey(value) ==
    /\ writes < MaxWrites
    /\ inbox' = Dispatch(0, "other-key", <<value>>)
    /\ writes' = writes + 1
    /\ themeEvent' = <<"setItem", 0, "other-key">>
    /\ UNCHANGED <<storage, theme, exceptTheme>>

ThemeIdle ==
    /\ storage = NoItem
    /\ theme = [tab \in Tabs |-> "unmounted"]
    /\ inbox = [tab \in Tabs |-> <<>>]
    /\ writes = 0
    /\ themeEvent = <<"none", 0, "">>

(***************************************************************************)
(* The pixel converter                                                     *)
(***************************************************************************)
PRECISION == 4

Digits == {"0", "1", "2", "3", "4", "5", "6", "7", "8", "9"}

RECURSIVE DigitPrefix(_)
(* the digits a text starts with *)
DigitPrefix(s) ==
    IF Len(s) > 0 /\ SubSeq(s, 1, 1) \in Digits
    THEN SubSeq(s, 1, 1) \o DigitPrefix(Tail(s))
    ELSE ""

RECURSIVE DigitsNumber(_)
DigitsNumber(s) ==
    IF Len(s) = 0 THEN 0
    ELSE DigitsNumber(SubSeq(s, 1, Len(s) - 1)) * 10
            + (CHOOSE d \in 0..9 : ToString(d) = SubSeq(s, Len(s), Len(s)))

StartsWith(s, prefix) == Len(s) >= Len(prefix) /\ SubSeq(s, 1, Len(prefix)) = prefix

(* Number.parseFloat on texts without an exponent: blanks are skipped, then
   the longest prefix that is a signed decimal numeral or a signed
   "Infinity" is read and whatever follows it is ignored; NaN when there is
   no such prefix.  The fraction keeps the six digits of the fixed point. *)
parseFloat(text) ==
    LET s == TrimLeft(text)
        signed == Len(s) > 0 /\ SubSeq(s, 1, 1) \in {"-", "+"}
        negative == signed /\ SubSeq(s, 1, 1) = "-"
        body == IF signed THEN Tail(s) ELSE s
        whole == DigitPrefix(body)
        rest == SubSeq(body, Len(whole) + 1, Len(body))
        frac == IF StartsWith(rest, ".") THEN DigitPrefix(Tail(rest)) ELSE ""
        kept == SubSeq(frac, 1, Min(Len(frac), 6))
        magnitude == DigitsNumber(whole) * Scale + DigitsNumber(kept) * 10^(6 - Len(kept))
    IN IF StartsWith(body, "Infinity") THEN (IF negative THEN NegInfinity ELSE Infinity)
       ELSE IF whole = "" /\ frac = "" THEN NaN
       ELSE IF negative THEN -magnitude ELSE magnitude

(* n / d for d > 0, the sign of n kept *)
Divide(n, d) == IF n < 0 THEN -DivFix(-n, d) ELSE DivFix(n, d)

(* value.toFixed(PRECISION).replace(/\.?0+$/, ""): the zeros the text ends
   with go, and a point just before them goes too *)
formatNumber(value) ==
    LET fixed == toFixed(value, PRECISION)
        kept == DropZeros(fixed)
    IN IF Len(kept) < Len(fixed) /\ Last(kept) = "." THEN Front(kept) ELSE kept

VALUE_ERROR == "Enter a numeric measurement to convert."
BASE_ERROR == "Root font size must be a positive number."

(* the root size is validated before the measurement *)
conversionBaseFirst ==
    LET parsedValue == parseFloat(valueInput)
        parsedBase == parseFloat(baseSizeInput)
        pxValue == IF unit \in {"rem", "em"} THEN MulFix(parsedValue, parsedBase) ELSE parsedValue
        remValue == Divide(pxValue, parsedBase)
    IN IF ~isFinite(parsedBase) \/ parsedBase <= 0 THEN [error |-> BASE_ERROR]
       ELSE IF ~isFinite(parsedValue) THEN [error |-> VALUE_ERROR]
       ELSE [px |-> pxValue, rem |-> remValue, em |-> remValue, base |-> parsedBase]

conversion ==
    LET parsedValue == parseFloat(valueInput)
        parsedBase == parseFloat(baseSizeInput)
        pxValue == IF unit \in {"rem", "em"} THEN MulFix(parsedValue, parsedBase) ELSE parsedValue
        remValue == Divide(pxValue, parsedBase)
        emValue == remValue
    IN IF ~isFinite(parsedValue) THEN [error |-> VALUE_ERROR]
       ELSE IF ~isFinite(parsedBase) \/ parsedBase <= 0 THEN [error |-> BASE_ERROR]
       ELSE [px |-> pxValue, rem |-> remValue, em |-> emValue, base |-> parsedBase]

display ==
    IF "error" \in DOMAIN conversion
    THEN [state |-> "error", message |-> conversion.error]
    ELSE [ state |-> "ready",
           values |-> [ px |-> formatNumber(conversion.px),
                        rem |-> formatNumber(conversion.rem),
                        em |-> formatNumber(conversion.em) ],
           base |-> formatNumber(conversion.base) ]

LengthUnit == {"px", "rem", "em"}

(* what is typed into the measurement and the root size inputs *)
ValueTexts == {"16", "1.5", "-2", "0", "abc", "", "10px", "Infinity", " 24", ".5"}
BaseTexts == {"16", "10", "0", "-16", "", "x", "12.5", "-Infinity"}

setValueInput(value) ==
    /\ valueInput' = value
    /\ UNCHANGED <<unit, baseSizeInput, exceptPixel>>

setUnit(value) ==
    /\ unit' = value
    /\ UNCHANGED <<valueInput, baseSizeInput, exceptPixel>>

setBaseSizeInput(value) ==
    /\ baseSizeInput' = value
    /\ UNCHANGED <<valueInput, unit, exceptPixel>>

(***************************************************************************)
(* The SVG optimizer.  svgo is an external library: optimize() is          *)
(* tabulated as a text that names the options and the source it was given, *)
(* and it throws on the sources of Malformed.  The component is one        *)
(* record; timers holds the window.setTimeout callbacks that are pending,  *)
(* each with the values its closure captured; cleanup is the timer the     *)
(* cleanup function of the latest effect run clears.                       *)
(***************************************************************************)
PresetId == {"balanced", "presentation", "aggressive"}

PresetOverrides == [preserveViewBox : BOOLEAN, preserveIds : BOOLEAN, prettyOutput : BOOLEAN]

(* the plugins a preset asks for, as a text *)
buildOptions(id, overrides) ==
    id \o (IF overrides.preserveIds THEN " cleanupIds=false" ELSE "")
       \o (IF ~overrides.preserveViewBox THEN " removeViewBox" ELSE "")
       \o " removeDimensions"
       \o (IF id = "presentation" THEN " sortAttrs" ELSE "")
       \o (IF id = "aggressive" THEN " convertPathData mergePaths" ELSE "")
       \o (IF overrides.prettyOutput THEN " pretty" ELSE "")

SvgTexts == {"", "  ", "<svg/>", "<svg"}
Malformed == {"<svg"}

(* optimize(source, options) of svgo: <<"data", text>> or <<"throw", message>> *)
optimize(text, options) ==
    IF text \in Malformed THEN <<"throw", "Unclosed root tag">>
    ELSE <<"data", "<!-- " \o options \o " -->" \o trim(text)>>

NoError == <<>>

MaxOptimizations == 3

SvgMounted ==
    /\ svgOptimizer =
          [ sourceSvg |-> "", optimizedSvg |-> "", activePresetId |-> "balanced",
            overrides |-> [preserveViewBox |-> TRUE, preserveIds |-> TRUE, prettyOutput |-> FALSE],
            error |-> NoError, isProcessing |-> FALSE,
            optimizeTokenRef |-> 0, timers |-> {}, cleanup |-> <<>> ]
    /\ optimizations = [ran |-> {}, cleared |-> {}]

(* the debounce effect without its cleanup: the timer of the run before
   stays pending *)
DebounceEffectNoCleanup(s) ==
    IF trim(s.sourceSvg) = ""
    THEN [s EXCEPT !.optimizedSvg = "", !.isProcessing = FALSE, !.error = NoError,
                   !.cleanup = <<>>]
    ELSE LET token == s.optimizeTokenRef + 1
             timeout == [ token |-> token, sourceSvg |-> s.sourceSvg,
                          options |-> buildOptions(s.activePresetId, s.overrides) ]
         IN [s EXCEPT !.optimizeTokenRef = token, !.isProcessing = TRUE,
                      !.error = NoError, !.timers = s.timers \cup {timeout},
                      !.cleanup = <<token>>]

(* useEffect([sourceSvg, activePreset, overrides]) on the state s that a
   render with changed dependencies committed: the cleanup of the run before,
   then the effect *)
DebounceEffect(s) ==
    LET cleaned == [s EXCEPT !.timers = {t \in s.timers : <<t.token>> # s.cleanup}]
    IN IF trim(s.sourceSvg) = ""
       THEN [cleaned EXCEPT !.optimizedSvg = "", !.isProcessing = FALSE,
                            !.error = NoError, !.cleanup = <<>>]
       ELSE LET token == s.optimizeTokenRef + 1
                timeout == [ token |-> token, sourceSvg |-> s.sourceSvg,
                             options |-> buildOptions(s.activePresetId, s.overrides) ]
            IN [cleaned EXCEPT !.optimizeTokenRef = token, !.isProcessing = TRUE,
                               !.error = NoError,
                               !.timers = cleaned.timers \cup {timeout},
                               !.cleanup = <<token>>]

(* the tokens of the timers that were pending in s and are gone in next *)
Cleared(s, next) == {t.token : t \in s.timers} \ {t.token : t \in next.timers}

(* a render whose dependencies changed, followed by its effect *)
Commit(next) ==
    /\ trim(next.sourceSvg) # "" => svgOptimizer.optimizeTokenRef < MaxOptimizations
    /\ svgOptimizer' = DebounceEffect(next)
    /\ optimizations' =
          [optimizations EXCEPT !.cleared = @ \cup Cleared(svgOptimizer, svgOptimizer')]
    /\ UNCHANGED exceptSvg

setSourceSvg(value) ==
    /\ value # svgOptimizer.sourceSvg
    /\ Commit([svgOptimizer EXCEPT !.sourceSvg = value])

setActivePresetId(value) ==
    /\ value # svgOptimizer.activePresetId
    /\ Commit([svgOptimizer EXCEPT !.activePresetId = value])

setPreserveViewBox(checked) ==
    /\ checked # svgOptimizer.overrides.preserveViewBox
    /\ Commit([svgOptimizer EXCEPT !.overrides.preserveViewBox = checked])

setPreserveIds(checked) ==
    /\ checked # svgOptimizer.overrides.preserveIds
    /\ Commit([svgOptimizer EXCEPT !.overrides.preserveIds = checked])

setPrettyOutput(checked) ==
    /\ checked # svgOptimizer.overrides.prettyOutput
    /\ Commit([svgOptimizer EXCEPT !.overrides.prettyOutput = checked])

(* the callback handed to window.setTimeout, run when its 200 ms are over *)
OptimizeTimeout ==
    \E timeout \in svgOptimizer.timers :
        LET result == optimize(timeout.sourceSvg, timeout.options)
            current == svgOptimizer.optimizeTokenRef = timeout.token
            fired == [svgOptimizer EXCEPT !.timers = @ \ {timeout}]
        IN /\ svgOptimizer' =
                 IF ~current THEN fired
                 ELSE IF result[1] = "data"
                 THEN [fired EXCEPT !.optimizedSvg = result[2], !.isProcessing = FALSE]
                 ELSE [fired EXCEPT !.error = <<result[2]>>, !.optimizedSvg = "",
                                    !.isProcessing = FALSE]
           /\ optimizations' = [optimizations EXCEPT !.ran = @ \cup {timeout.token}]
           /\ UNCHANGED exceptSvg

(* handleFileSelect with a file whose type is not SVG *)
handleFileSelectRejected ==
    /\ svgOptimizer.error # <<"Please choose an SVG file.">>
    /\ svgOptimizer' = [svgOptimizer EXCEPT !.error = <<"Please choose an SVG file.">>]
    /\ UNCHANGED <<optimizations, exceptSvg>>

(* handleFileSelect with an SVG file, once file.text() has resolved *)
handleFileSelect(text) ==
    LET next == [svgOptimizer EXCEPT !.sourceSvg = text, !.error = NoError]
    IN IF text # svgOptimizer.sourceSvg
       THEN Commit(next)
       ELSE /\ svgOptimizer.error # NoError
            /\ svgOptimizer' = next
            /\ UNCHANGED <<optimizations, exceptSvg>>

clearAll ==
    LET next == [svgOptimizer EXCEPT !.sourceSvg = "", !.optimizedSvg = "", !.error = NoError]
    IN IF svgOptimizer.sourceSvg # ""
       THEN Commit(next)
       ELSE /\ next # svgOptimizer
            /\ svgOptimizer' = next
            /\ UNCHANGED <<optimizations, exceptSvg>>

(***************************************************************************)
(* The regex tester.  The RegExp engine is the browser's: NewRegExp and    *)
(* AllMatches tabulate it on the patterns and the test strings of the      *)
(* model.  A call that may throw returns <<"return", value>> or            *)
(* <<"throw", message>>.                                                   *)
(***************************************************************************)
FlagNames == <<"g", "i", "m", "s", "u", "y">>

RegexFlags == [{"g", "i", "m", "s", "u", "y"} -> BOOLEAN]

NoFlags == [flag \in {"g", "i", "m", "s", "u", "y"} |-> FALSE]

(* the three-digit groups of a phone number, from EXAMPLES *)
PhonePattern == "(\\d{3})-(\\d{3})-(\\d{4})"
PhoneText == "Call 555-123-4567 or 555-987-6543 for assistance."

EXAMPLES ==
    { [ name |-> "Phone Numbers (US)", pattern |-> PhonePattern,
        flags |-> [NoFlags EXCEPT !["g"] = TRUE], testString |-> PhoneText ] }

PatternTexts == {"", "a+", "\\d", "(", "[a-z", "a{"}
TestTexts == {"", "aab", "a1"}

(* patterns no flags make valid, and patterns the u flag makes invalid *)
NeverCompiles == {"(", "[a-z"}
UnicodeRejects == {"a{"}

RECURSIVE Includes(_, _)
(* String.prototype.includes *)
Includes(s, part) ==
    IF Len(s) < Len(part) THEN FALSE
    ELSE SubSeq(s, 1, Len(part)) = part \/ Includes(Tail(s), part)

(* new RegExp(pattern, flagString) *)
NewRegExp(text, flagString) ==
    IF text \in NeverCompiles \/ (text \in UnicodeRejects /\ Includes(flagString, "u"))
    THEN <<"throw", "Invalid regular expression: /" \o text \o "/" \o flagString>>
    ELSE <<"return", [source |-> text, flags |-> flagString]>>

(* every match of a pattern in a text, left to right and without overlap *)
AllMatches(text, string) ==
    IF text = "a+" /\ string = "aab" THEN <<[fullMatch |-> "aa", index |-> 0]>>
    ELSE IF text = "a+" /\ string = "a1" THEN <<[fullMatch |-> "a", index |-> 0]>>
    ELSE IF text = "\\d" /\ string = "a1" THEN <<[fullMatch |-> "1", index |-> 1]>>
    ELSE IF text = PhonePattern /\ string = PhoneText
    THEN << [fullMatch |-> "555-123-4567", index |-> 5],
            [fullMatch |-> "555-987-6543", index |-> 21] >>
    ELSE <<>>

RECURSIVE JoinFlags(_, _)
(* Object.entries(flags).filter(enabled).map(flag).join("") *)
JoinFlags(flags, i) ==
    IF i > Len(FlagNames) THEN ""
    ELSE (IF flags[FlagNames[i]] THEN FlagNames[i] ELSE "") \o JoinFlags(flags, i + 1)

buildRegexFromFlags(text, flags) ==
    LET made == NewRegExp(text, JoinFlags(flags, 1))
    IN IF made[1] = "throw" THEN <<"return", Null>> ELSE made

RECURSIVE StickyRun(_, _)
(* the matches a sticky regex finds: each starts where the one before ended *)
StickyRun(found, lastIndex) ==
    IF found = <<>> \/ found[1].index # lastIndex THEN <<>>
    ELSE <<found[1]>> \o StickyRun(Tail(found), lastIndex + Len(found[1].fullMatch))

findMatches(text, flags, string) ==
    LET regex == buildRegexFromFlags(text, flags)[2]
        found == IF flags["y"] THEN StickyRun(AllMatches(text, string), 0)
                 ELSE AllMatches(text, string)
    IN IF regex = Null THEN Null
       ELSE IF flags["g"] THEN [matches |-> found]
       ELSE [matches |-> IF found = <<>> THEN <<>> ELSE <<found[1]>>]

RECURSIVE HasCapturingGroup(_)
(* pattern.match(/\((?!\?:)/): a "(" that "?:" does not follow *)
HasCapturingGroup(s) ==
    IF Len(s) = 0 THEN FALSE
    ELSE \/ SubSeq(s, 1, 1) = "(" /\ ~StartsWith(Tail(s), "?:")
         \/ HasCapturingGroup(Tail(s))

explainRegexPattern(text) ==
    LET explanations ==
            (IF Includes(text, "\\b")
             THEN <<"Uses word boundaries to match whole words only">> ELSE <<>>)
         \o (IF Includes(text, "^") \/ Includes(text, "$")
             THEN <<"Anchored to start/end of line or string">> ELSE <<>>)
         \o (IF HasCapturingGroup(text)
             THEN <<"Contains capturing groups to extract parts of the match">> ELSE <<>>)
         \o (IF Includes(text, "+") \/ Includes(text, "*") \/ Includes(text, "{")
             THEN <<"Uses quantifiers to match repeated patterns">> ELSE <<>>)
         \o (IF Includes(text, "[")
             THEN <<"Uses character classes to match specific character sets">> ELSE <<>>)
         \o (IF Includes(text, "|")
             THEN <<"Uses alternation to match multiple patterns">> ELSE <<>>)
         \o (IF Includes(text, "\\d") \/ Includes(text, "\\w") \/ Includes(text, "\\s")
             THEN <<"Uses shorthand character classes for common patterns">> ELSE <<>>)
    IN IF Len(explanations) = 0 THEN <<"Simple literal pattern matching">> ELSE explanations

RegexMounted ==
    regexTester = [pattern |-> "", testString |-> "", flags |-> [NoFlags EXCEPT !["g"] = TRUE]]

(* useMemo([pattern, flags]): null is NoError *)
regexError ==
    IF regexTester.pattern = "" THEN NoError
    ELSE LET built == buildRegexFromFlags(regexTester.pattern, regexTester.flags)
         IN IF built[1] = "throw" THEN <<built[2]>> ELSE NoError

(* useMemo([pattern, flags, testString, regexError]) *)
matches ==
    IF regexTester.pattern = "" \/ regexTester.testString = "" \/ regexError # NoError
    THEN Null
    ELSE findMatches(regexTester.pattern, regexTester.flags, regexTester.testString)

(* useMemo([pattern, regexError]) *)
explanation ==
    IF regexTester.pattern = "" \/ regexError # NoError THEN <<>>
    ELSE explainRegexPattern(regexTester.pattern)

setPattern(value) ==
    /\ regexTester' = [regexTester EXCEPT !.pattern = value]
    /\ UNCHANGED exceptRegex

setTestString(value) ==
    /\ regexTester' = [regexTester EXCEPT !.testString = value]
    /\ UNCHANGED exceptRegex

toggleFlag(flag) ==
    /\ regexTester' = [regexTester EXCEPT !.flags[flag] = ~@]
    /\ UNCHANGED exceptRegex

loadExample(example) ==
    /\ regexTester' = [ pattern |-> example.pattern, testString |-> example.testString,
                        flags |-> example.flags ]
    /\ UNCHANGED exceptRegex

(***************************************************************************)
(* The JSON tool.  A JSON value is a tree: an object with its members in   *)
(* order, an array with its items, or a scalar with the text JSON gives    *)
(* it.  JSON.parse is tabulated on the texts of the model, after removing  *)
(* the white space between tokens; JSON.stringify is computed.             *)
(***************************************************************************)
Scalar(text) == [type |-> "scalar", text |-> text]

ItemValue(id, active) ==
    [ type |-> "object",
      members |-> << <<"id", Scalar("\"" \o id \o "\"")>>, <<"active", Scalar(active)>> >> ]

(* the value of INITIAL_SAMPLE *)
SampleValue ==
    [ type |-> "object",
      members |-> << <<"name", Scalar("\"Example\"")>>,
                     <<"version", Scalar("1")>>,
                     <<"items", [ type |-> "array",
                                  items |-> << ItemValue("alpha", "true"),
                                               ItemValue("beta", "false") >> ]>> >> ]

INITIAL_SAMPLE ==
    "{\n  \"name\": \"Example\",\n  \"version\": 1,\n  \"items\": [\n"
        \o "    { \"id\": \"alpha\", \"active\": true },\n"
        \o "    { \"id\": \"beta\", \"active\": false }\n  ]\n}"

ObjectA == [type |-> "object", members |-> << <<"a", Scalar("1")>> >>]
ArrayOneTwo == [type |-> "array", items |-> <<Scalar("1"), Scalar("2")>>]

JsonValues == {SampleValue, ObjectA, ArrayOneTwo}

RECURSIVE Repeat(_, _)
Repeat(s, n) == IF n <= 0 THEN "" ELSE s \o Repeat(s, n - 1)

RECURSIVE JsonStringify(_, _, _)
RECURSIVE JoinParts(_, _, _, _)
(* the members or items of a container from the i-th on, one per line when
   there is an indent *)
JoinParts(value, gap, level, i) ==
    LET parts == IF value.type = "object" THEN value.members ELSE value.items
        inner == Repeat(gap, level + 1)
        part == IF value.type = "object"
                THEN "\"" \o parts[i][1] \o "\":" \o (IF gap = "" THEN "" ELSE " ")
                        \o JsonStringify(parts[i][2], gap, level + 1)
                ELSE JsonStringify(parts[i], gap, level + 1)
        line == (IF gap = "" THEN "" ELSE "\n" \o inner) \o part
    IN IF i > Len(parts) THEN ""
       ELSE line \o (IF i < Len(parts) THEN "," ELSE "") \o JoinParts(value, gap, level, i + 1)

(* JSON.stringify(value, null, gap) at a nesting level; gap "" is the
   call without an indent *)
JsonStringify(value, gap, level) ==
    IF value.type = "scalar" THEN value.text
    ELSE LET open == IF value.type = "object" THEN "{" ELSE "["
             close == IF value.type = "object" THEN "}" ELSE "]"
             parts == IF value.type = "object" THEN value.members ELSE value.items
         IN IF Len(parts) = 0 THEN open \o close
            ELSE open \o JoinParts(value, gap, level, 1)
                      \o (IF gap = "" THEN "" ELSE "\n" \o Repeat(gap, level)) \o close

RECURSIVE Squeeze(_)
(* a text without its blanks, tabs and line ends *)
Squeeze(s) ==
    IF Len(s) = 0 THEN ""
    ELSE IF Len(s) = 1 THEN (IF s \in {" ", "\n", "\t"} THEN "" ELSE s)
    ELSE Squeeze(SubSeq(s, 1, Len(s) \div 2)) \o Squeeze(SubSeq(s, Len(s) \div 2 + 1, Len(s)))

(* JSON.parse(text): <<"return", value>>, or <<"throw", message>> *)
JsonParse(text) ==
    IF \E value \in JsonValues : JsonStringify(value, "", 0) = Squeeze(text)
    THEN <<"return", CHOOSE value \in JsonValues : JsonStringify(value, "", 0) = Squeeze(text)>>
    ELSE <<"throw", "Unexpected end of JSON input">>

INDENT_OPTIONS == {"2", "4", "tab"}

(* indentSetting === "tab" ? "\t" : Number.parseInt(indentSetting, 10), as
   the gap JSON.stringify makes of it *)
Indent(indentSetting) ==
    IF indentSetting = "tab" THEN "\t" ELSE IF indentSetting = "4" THEN "    " ELSE "  "

JsonTexts == {"", "  ", "{\"a\":1}", "[1, 2]", "{\"a\":"}

NoTimer == <<>>

JsonMounted ==
    /\ jsonParser = [ rawInput |-> INITIAL_SAMPLE, indentSetting |-> "2",
                      debouncedInput |-> INITIAL_SAMPLE, timer |-> NoTimer ]
    /\ jsonClick = <<"none", "", "">>

(* !text.trim() *)
IsBlank(s) == \A i \in 1..Len(s) : SubSeq(s, i, i) \in {" ", "\n", "\t"}

(* useMemo([debouncedInput]), the fields the handlers read *)
parseStateOf(text) ==
    IF IsBlank(text) THEN [status |-> "empty"]
    ELSE LET parsed == JsonParse(text)
         IN IF parsed[1] = "return" THEN [status |-> "valid", value |-> parsed[2]]
            ELSE [status |-> "invalid", message |-> parsed[2]]

parseState == parseStateOf(jsonParser.debouncedInput)

(* useDebounce(rawInput, 300) after setRawInput(value): a changed value
   restarts the 300 ms timer that will copy it to debouncedInput *)
SetRawInput(value) ==
    IF value = jsonParser.rawInput THEN jsonParser
    ELSE [jsonParser EXCEPT !.rawInput = value,
                            !.timer = IF value = jsonParser.debouncedInput
                                      THEN NoTimer ELSE <<value>>]

jsonHandleInputChange(value) ==
    /\ value # jsonParser.rawInput
    /\ jsonParser' = SetRawInput(value)
    /\ jsonClick' = <<"handleInputChange", jsonParser.rawInput, "">>
    /\ UNCHANGED exceptJson

(* the debounce timer fires *)
DebounceTimeout ==
    /\ jsonParser.timer # NoTimer
    /\ jsonParser' = [jsonParser EXCEPT !.debouncedInput = jsonParser.timer[1],
                                        !.timer = NoTimer]
    /\ jsonClick' = <<"timeout", jsonParser.rawInput, "">>
    /\ UNCHANGED exceptJson

handleIndentChange(value) ==
    /\ value \in INDENT_OPTIONS
    /\ value # jsonParser.indentSetting
    /\ jsonParser' = [jsonParser EXCEPT !.indentSetting = value]
    /\ jsonClick' = <<"handleIndentChange", jsonParser.rawInput, "">>
    /\ UNCHANGED exceptJson

jsonHandleFormat ==
    /\ jsonParser' =
          IF parseState.status # "valid" THEN jsonParser
          ELSE SetRawInput(JsonStringify(parseState.value, Indent(jsonParser.indentSetting), 0))
    /\ jsonClick' = <<"handleFormat", jsonParser.rawInput, jsonParser.indentSetting>>
    /\ UNCHANGED exceptJson

jsonHandleMinify ==
    /\ jsonParser' =
          IF parseState.status # "valid" THEN jsonParser
          ELSE SetRawInput(JsonStringify(parseState.value, "", 0))
    /\ jsonClick' = <<"handleMinify", jsonParser.rawInput, jsonParser.indentSetting>>
    /\ UNCHANGED exceptJson

handleClear ==
    /\ jsonParser.rawInput # ""
    /\ jsonParser' = SetRawInput("")
    /\ jsonClick' = <<"handleClear", jsonParser.rawInput, "">>
    /\ UNCHANGED exceptJson

(***************************************************************************)
(* The image converter.  A file is its name; its dimensions are the ones   *)
(* "of" that file.  The record holds the useState and useRef values, the   *)
(* pending 200 ms timers (timers, with what each closure captured), the    *)
(* conversions that are suspended at an await (running) and the pending    *)
(* extractImageDimensions calls (measuring).  targetWidth, targetHeight,   *)
(* quality and outputName only add dependencies to the effect and follow   *)
(* originalDimensions and file; targetFormat stands for them.              *)
(***************************************************************************)
SUPPORTED_FORMATS == {"image/png", "image/jpeg", "image/webp"}

(* the formats chosen in the model *)
TargetFormats == {"image/png", "image/jpeg"}

NoFile == <<>>
NoImage == <<>>
NoDimensions == <<>>

(* the files of the file picker: their names and MIME types *)
PickedFiles == {"photo.png", "icon.gif", "notes.txt"}
FileType(name) == IF name = "notes.txt" THEN "text/plain" ELSE "image/" \o SubSeq(name, Len(name) - 2, Len(name))

MaxConversions == 2

ImageMounted ==
    imageConverter =
        [ file |-> NoFile, targetFormat |-> "image/png", isProcessing |-> FALSE,
          convertedImage |-> NoImage, error |-> NoError, originalDimensions |-> NoDimensions,
          fileTokenRef |-> 0, convertTokenRef |-> 0,
          timers |-> {}, cleanup |-> <<>>, running |-> {}, measuring |-> {} ]

(* the dependencies of the conversion effect *)
ConversionInputs(s) == <<s.file, s.originalDimensions, s.targetFormat>>

(* the conversion effect on the state s of a render whose dependencies
   changed: the cleanup of the run before, then the effect *)
ConversionEffect(s) ==
    LET cleaned == [s EXCEPT !.timers = {t \in s.timers : <<t.token>> # s.cleanup}]
        currentToken == s.convertTokenRef + 1
        timeout == [ token |-> currentToken, file |-> s.file[1],
                     targetFormat |-> s.targetFormat,
                     originalDimensions |-> s.originalDimensions ]
    IN IF s.file = NoFile
       THEN [cleaned EXCEPT !.convertedImage = NoImage, !.isProcessing = FALSE,
                            !.error = NoError, !.cleanup = <<>>]
       ELSE [cleaned EXCEPT !.convertTokenRef = currentToken,
                            !.timers = cleaned.timers \cup {timeout},
                            !.cleanup = <<currentToken>>]

(* the state after the render that follows the state updates in next *)
AfterRender(next) ==
    IF ConversionInputs(next) # ConversionInputs(imageConverter)
    THEN ConversionEffect(next)
    ELSE next

ImageRender(next) ==
    /\ (ConversionInputs(next) # ConversionInputs(imageConverter) /\ next.file # NoFile) =>
            imageConverter.convertTokenRef < MaxConversions
    /\ imageConverter' = AfterRender(next)
    /\ UNCHANGED exceptImage

(* handleFileChange when the picker holds no file *)
imageHandleFileChangeEmpty ==
    /\ <<imageConverter.file, imageConverter.convertedImage,
         imageConverter.originalDimensions>> # <<NoFile, NoImage, NoDimensions>>
    /\ ImageRender([imageConverter EXCEPT !.file = NoFile, !.originalDimensions = NoDimensions,
                                          !.convertedImage = NoImage])

imageHandleFileChange(nextFile) ==
    IF ~StartsWith(FileType(nextFile), "image/")
    THEN /\ <<imageConverter.file, imageConverter.convertedImage, imageConverter.error>>
                # <<NoFile, NoImage, <<"Please select an image file.">> >>
         /\ ImageRender([imageConverter EXCEPT !.error = <<"Please select an image file.">>,
                                               !.file = NoFile,
                                               !.originalDimensions = NoDimensions,
                                               !.convertedImage = NoImage])
    ELSE LET currentToken == imageConverter.fileTokenRef + 1
         IN /\ imageConverter.file # <<nextFile>>
            /\ ImageRender([imageConverter EXCEPT
                                !.fileTokenRef = currentToken,
                                !.error = NoError,
                                !.file = <<nextFile>>,
                                !.convertedImage = NoImage,
                                !.measuring = @ \cup {[token |-> currentToken, file |-> nextFile]}])

(* extractImageDimensions(nextFile) settles and the async part of
   handleFileChange goes on *)
DimensionsSettle(task, resolved) ==
    LET done == [imageConverter EXCEPT !.measuring = @ \ {task}]
    IN /\ task \in imageConverter.measuring
       /\ IF imageConverter.fileTokenRef # task.token
          THEN ImageRender(done)
          ELSE IF resolved
          THEN ImageRender([done EXCEPT !.originalDimensions = <<task.file>>])
          ELSE ImageRender([done EXCEPT !.error = <<"Could not read image dimensions.">>,
                                        !.originalDimensions = NoDimensions])

setTargetFormat(value) ==
    /\ value # imageConverter.targetFormat
    /\ ImageRender([imageConverter EXCEPT !.targetFormat = value])

(* the 200 ms timer fires: runConversion up to its first await *)
ConversionTimeout(timeout) ==
    LET fired == [imageConverter EXCEPT !.timers = @ \ {timeout}]
    IN /\ timeout \in imageConverter.timers
       /\ IF imageConverter.convertTokenRef # timeout.token
          THEN ImageRender(fired)
          ELSE ImageRender([fired EXCEPT
                               !.isProcessing = TRUE, !.error = NoError,
                               !.running = @ \cup {[ token |-> timeout.token,
                                                     file |-> timeout.file,
                                                     targetFormat |-> timeout.targetFormat,
                                                     originalDimensions |-> timeout.originalDimensions,
                                                     stage |-> "loadImageSource" ]}])

(* the catch and finally blocks of runConversion *)
ConversionFails(s, task, message) ==
    IF s.convertTokenRef # task.token THEN s
    ELSE [s EXCEPT !.error = <<message>>, !.isProcessing = FALSE]

(* await loadImageSource(file) settles: runConversion up to canvas.toBlob *)
LoadImageSettles(task, resolved) ==
    LET rest == [imageConverter EXCEPT !.running = @ \ {task}]
    IN /\ task \in imageConverter.running
       /\ task.stage = "loadImageSource"
       /\ IF ~resolved
          THEN ImageRender(ConversionFails(rest, task, "Unable to load the image."))
          ELSE ImageRender([rest EXCEPT
                               !.originalDimensions =
                                   IF task.originalDimensions = NoDimensions
                                   THEN <<task.file>> ELSE @,
                               !.running = @ \cup {[task EXCEPT !.stage = "toBlob"]}])

(* the toBlob promise settles: the rest of runConversion *)
ToBlobSettles(task, hasBlob) ==
    LET rest == [imageConverter EXCEPT !.running = @ \ {task}]
    IN /\ task \in imageConverter.running
       /\ task.stage = "toBlob"
       /\ IF ~hasBlob
          THEN ImageRender(ConversionFails(rest, task, "Could not convert the image."))
          ELSE IF imageConverter.convertTokenRef # task.token
          THEN ImageRender(rest)
          ELSE ImageRender([rest EXCEPT
                               !.convertedImage = <<[ of |-> task.file,
                                                      type |-> task.targetFormat,
                                                      token |-> task.token ]>>,
                               !.isProcessing = FALSE])

(***************************************************************************)
(* The data URI encoder.  dataUriEncoder holds the four useState values    *)
(* of DataUriEncoder, the FileReader reads that readAsDataURL started and  *)
(* that have not settled (reads), and how many reads were started.         *)
(***************************************************************************)
MaxReads == 3

(* the files of the file picker and the texts typed in the model; the last
   text stands for a string with a lone surrogate *)
EncoderFiles == {"photo.png", "notes.txt"}
EncoderTexts == {"", "a", "hi", "<U+D800>"}

(* base64 of the bytes of each file, as FileReader reports them *)
FileBase64(name) == IF name = "notes.txt" THEN "aGk=" ELSE "iVBORw=="

(* FileReader.readAsDataURL: the result of a read that loads *)
readAsDataURL(name) == "data:" \o FileType(name) \o ";base64," \o FileBase64(name)

(* btoa(unescape(encodeURIComponent(text))): encodeURIComponent throws a
   URIError on a lone surrogate *)
btoaUtf8(text) ==
    CASE text = "a" -> <<"return", "YQ==">>
      [] text = "hi" -> <<"return", "aGk=">>
      [] text = "" -> <<"return", "">>
      [] OTHER -> <<"throw", "URIError: URI malformed">>

DataUriMounted ==
    dataUriEncoder =
        [ inputMode |-> "file", textInput |-> "", file |-> NoFile, output |-> "",
          reads |-> {}, started |-> 0 ]

(* processFile: a new FileReader, its onload handler, readAsDataURL *)
processFile(s, fileToProcess) ==
    [s EXCEPT !.reads = @ \cup {[id |-> s.started + 1, file |-> fileToProcess]},
              !.started = @ + 1]

(* handleFileChange with a file chosen; the file input is rendered in file
   mode while no file is held *)
dataUriHandleFileChange(selectedFile) ==
    /\ dataUriEncoder.inputMode = "file"
    /\ dataUriEncoder.file = NoFile
    /\ dataUriEncoder.started < MaxReads
    /\ dataUriEncoder' = processFile([dataUriEncoder EXCEPT !.file = <<selectedFile>>], selectedFile)
    /\ UNCHANGED exceptDataUri

(* handleFileChange when the dialog is closed with no file chosen *)
dataUriHandleFileChangeEmpty ==
    /\ dataUriEncoder.inputMode = "file"
    /\ dataUriEncoder.file = NoFile
    /\ UNCHANGED vars

(* reader.onload of a read in flight *)
ReaderOnload(read) ==
    /\ read \in dataUriEncoder.reads
    /\ dataUriEncoder' = [dataUriEncoder EXCEPT !.reads = @ \ {read},
                                                !.output = readAsDataURL(read.file)]
    /\ UNCHANGED exceptDataUri

(* a read that fails: no onerror handler is installed *)
ReaderOnerror(read) ==
    /\ read \in dataUriEncoder.reads
    /\ dataUriEncoder' = [dataUriEncoder EXCEPT !.reads = @ \ {read}]
    /\ UNCHANGED exceptDataUri

(* handleTextChange; the textarea is rendered in text mode *)
handleTextChange(text) ==
    /\ dataUriEncoder.inputMode = "text"
    /\ LET encoded == btoaUtf8(text)
       IN dataUriEncoder' =
            [dataUriEncoder EXCEPT
                !.textInput = text,
                !.output = IF text # ""
                           THEN IF encoded[1] = "return"
                                THEN "data:text/plain;charset=utf-8;base64," \o encoded[2]
                                ELSE "Error encoding text"
                           ELSE ""]
    /\ UNCHANGED exceptDataUri

(* clearFile; its button is rendered in file mode while a file is held *)
clearFile ==
    /\ dataUriEncoder.inputMode = "file"
    /\ dataUriEncoder.file # NoFile
    /\ dataUriEncoder' = [dataUriEncoder EXCEPT !.file = NoFile, !.output = ""]
    /\ UNCHANGED exceptDataUri

(* the "Convert File" button *)
ConvertFileClick ==
    /\ dataUriEncoder' = [dataUriEncoder EXCEPT !.inputMode = "file", !.output = "",
                                                !.textInput = ""]
    /\ UNCHANGED exceptDataUri

(* the "Convert String" button *)
ConvertStringClick ==
    /\ dataUriEncoder' = [dataUriEncoder EXCEPT !.inputMode = "text", !.file = NoFile,
                                                !.output = ""]
    /\ UNCHANGED exceptDataUri

(***************************************************************************)
(* The CSS tool (src/unnamed/part_001, CssParserTool).  cssParser holds    *)
(* rawInput, indentSetting, actionError, isFormatting and isMinifying, the *)
(* value and the timer of useDebounce(rawInput, 300), and the calls of     *)
(* handleFormat and handleMinify that are suspended at their await         *)
(* (formatting, minifying).  A suspended call keeps the rawInput and the   *)
(* indentSetting of the render whose handler was called; its field typed   *)
(* is history: whether handleInputChange ran while it was suspended.  The  *)
(* preview, the file upload and the copy button write neither rawInput     *)
(* from a suspended call nor the two flags and are left out.               *)
(* prettier, postcss, postcss-nesting and csso are libraries: their        *)
(* results are tabulated for one small rule in its layouts and named, not  *)
(* computed, for the sample stylesheet.                                    *)
(***************************************************************************)
CSS_INITIAL_SAMPLE ==
    ":root {\n  --brand-color: #2563eb;\n  color-scheme: light dark;\n}\n\n.card {\n  display: grid;\n  gap: 1rem;\n\n  & > header {\n    font-size: 1.125rem;\n    font-weight: 600;\n  }\n\n  & .actions {\n    display: flex;\n    gap: 0.75rem;\n\n    button {\n      border-radius: 999px;\n      &:hover {\n        background: color-mix(in srgb, var(--brand-color) 85%, transparent);\n      }\n    }\n  }\n\n  @media (width >= 48rem) {\n    grid-template-columns: 1fr auto;\n  }\n}"

(* the bound on the number of Format and Minify operations started *)
MaxOperations == 3

(* the texts typed in the model and the indentations chosen *)
CssTyped == {"", "a{b:c}", "a{"}
CssIndents == {"2", "tab"}

RuleMinified == "a{b:c}"
RuleFormatted(indent) ==
    "a {\n" \o (CASE indent = "2" -> "  " [] indent = "4" -> "    " [] OTHER -> "\t") \o "b: c;\n}"
SampleFormatted(indent) == "/* the sample as prettier prints it, indent " \o indent \o " */"
SampleMinified == "/* the sample as csso prints it */"
SampleFlatFormatted(indent) == "/* the minified sample as prettier prints it, indent " \o indent \o " */"

RuleTexts == {RuleMinified} \cup {RuleFormatted(indent) : indent \in INDENT_OPTIONS}
SampleNested == {CSS_INITIAL_SAMPLE} \cup {SampleFormatted(indent) : indent \in INDENT_OPTIONS}
SampleFlat == {SampleMinified} \cup {SampleFlatFormatted(indent) : indent \in INDENT_OPTIONS}

(* postcss.parse(text): does it return *)
CssParses(text) == text # "a{"

(* formatCss(input, indent): prettier.format(...).trimEnd() *)
formatCss(input, indent) ==
    CASE input = "" -> <<"return", "">>
      [] input \in RuleTexts -> <<"return", RuleFormatted(indent)>>
      [] input \in SampleNested -> <<"return", SampleFormatted(indent)>>
      [] input \in SampleFlat -> <<"return", SampleFlatFormatted(indent)>>
      [] OTHER -> <<"throw", "CssSyntaxError: Unclosed block">>

(* minifyCss(input): postcss-nesting, then csso *)
minifyCss(input) ==
    CASE input = "" -> <<"return", "">>
      [] input \in RuleTexts -> <<"return", RuleMinified>>
      [] input \in SampleNested \cup SampleFlat -> <<"return", SampleMinified>>
      [] OTHER -> <<"throw", "<css input>:1:1: Unclosed block">>

CssMounted ==
    cssParser =
        [ rawInput |-> CSS_INITIAL_SAMPLE, indentSetting |-> "2",
          debouncedInput |-> CSS_INITIAL_SAMPLE, timer |-> NoTimer,
          actionError |-> NoError, isFormatting |-> FALSE, isMinifying |-> FALSE,
          formatting |-> {}, minifying |-> {}, started |-> 0 ]

(* useMemo([debouncedInput]): the status the handlers read *)
cssParseState ==
    IF IsBlank(cssParser.debouncedInput) THEN "empty"
    ELSE IF CssParses(cssParser.debouncedInput) THEN "valid" ELSE "invalid"

(* setRawInput(value) on the state s, with useDebounce(rawInput, 300): a
   changed value restarts the timer that will copy it to debouncedInput *)
CssSetRawInput(s, value) ==
    IF value = s.rawInput THEN s
    ELSE [s EXCEPT !.rawInput = value,
                   !.timer = IF value = s.debouncedInput THEN NoTimer ELSE <<value>>]

(* history: the suspended calls see that the user typed *)
Typed(tasks) == {[task EXCEPT !.typed = TRUE] : task \in tasks}

cssHandleInputChange(value) ==
    /\ value # cssParser.rawInput
    /\ cssParser' = [CssSetRawInput(cssParser, value) EXCEPT
                        !.formatting = Typed(@), !.minifying = Typed(@)]
    /\ UNCHANGED exceptCss

(* the debounce timer fires *)
CssDebounceTimeout ==
    /\ cssParser.timer # NoTimer
    /\ cssParser' = [cssParser EXCEPT !.debouncedInput = cssParser.timer[1],
                                      !.timer = NoTimer]
    /\ UNCHANGED exceptCss

cssHandleIndentChange(value) ==
    /\ value \in INDENT_OPTIONS
    /\ value # cssParser.indentSetting
    /\ cssParser' = [cssParser EXCEPT !.indentSetting = value]
    /\ UNCHANGED exceptCss

(* handleFormat up to its await: the Format button or Ctrl/Cmd + Enter *)
cssHandleFormat ==
    /\ cssParser.started < MaxOperations
    /\ cssParser' =
          IF cssParseState # "valid" \/ cssParser.isFormatting
          THEN cssParser
          ELSE [cssParser EXCEPT
                  !.isFormatting = TRUE,
                  !.actionError = NoError,
                  !.started = @ + 1,
                  !.formatting = @ \cup {[ id |-> cssParser.started + 1,
                                           rawInput |-> cssParser.rawInput,
                                           indentSetting |-> cssParser.indentSetting,
                                           typed |-> FALSE ]}]
    /\ UNCHANGED exceptCss

(* handleFormat from its await on: try, catch, finally *)
FormatSettles(task) ==
    /\ task \in cssParser.formatting
    /\ LET formatted == formatCss(task.rawInput, task.indentSetting)
           settled == IF formatted[1] = "return"
                      THEN CssSetRawInput(cssParser, formatted[2])
                      ELSE [cssParser EXCEPT !.actionError = <<formatted[2]>>]
       IN cssParser' = [settled EXCEPT !.isFormatting = FALSE,
                                       !.formatting = @ \ {task}]
    /\ UNCHANGED exceptCss

(* handleMinify up to its await *)
cssHandleMinify ==
    /\ cssParser.started < MaxOperations
    /\ cssParser' =
          IF cssParseState # "valid" \/ cssParser.isMinifying
          THEN cssParser
          ELSE [cssParser EXCEPT
                  !.isMinifying = TRUE,
                  !.actionError = NoError,
                  !.started = @ + 1,
                  !.minifying = @ \cup {[ id |-> cssParser.started + 1,
                                          rawInput |-> cssParser.rawInput,
                                          indentSetting |-> cssParser.indentSetting,
                                          typed |-> FALSE ]}]
    /\ UNCHANGED exceptCss

(* handleMinify from its await on *)
MinifySettles(task) ==
    /\ task \in cssParser.minifying
    /\ LET minified == minifyCss(task.rawInput)
           settled == IF minified[1] = "return"
                      THEN CssSetRawInput(cssParser, minified[2])
                      ELSE [cssParser EXCEPT !.actionError = <<minified[2]>>]
       IN cssParser' = [settled EXCEPT !.isMinifying = FALSE,
                                       !.minifying = @ \ {task}]
    /\ UNCHANGED exceptCss

(* handleClear; its button is disabled while rawInput is empty *)
cssHandleClear ==
    /\ cssParser.rawInput # ""
    /\ cssParser' = [CssSetRawInput(cssParser, "") EXCEPT !.actionError = NoError]
    /\ UNCHANGED exceptCss

(***************************************************************************)
(* Specifications                                                          *)
(***************************************************************************)
Unrated == [aaNormal |-> "-", aaLarge |-> "-", aaaNormal |-> "-", aaaLarge |-> "-"]

ContrastMounted ==
    /\ foreground = DEFAULT_FOREGROUND
    /\ background = DEFAULT_BACKGROUND
    /\ swaps = 0
    /\ swapFrom = NoSwap

ConverterMounted ==
    /\ color = INITIAL_COLOR
    /\ inputValues = INITIAL_VALUES
    /\ inputErrors = NoErrors
    /\ lastEvent = <<"mount", "">>

RatingIdle ==
    /\ ratio = 0
    /\ rated = Unrated

(* formatValues not called yet *)
NotShown == [f \in FormatId |-> "-"]

FormatIdle ==
    /\ source = ""
    /\ sample = INITIAL_COLOR
    /\ shown = NotShown

PixelMounted ==
    /\ valueInput = "16"
    /\ unit = "px"
    /\ baseSizeInput = "16"

ToolsMounted ==
    /\ PixelMounted /\ SvgMounted /\ RegexMounted /\ JsonMounted /\ ImageMounted
    /\ DataUriMounted /\ CssMounted

(* the colour tools and the theme provider as they are before any event *)
ColoursMounted ==
    ContrastMounted /\ RatingIdle /\ ConverterMounted /\ FormatIdle /\ ThemeIdle

InitContrast ==
    ContrastMounted /\ RatingIdle /\ ConverterMounted /\ FormatIdle /\ ThemeIdle /\ ToolsMounted

NextContrast ==
    \/ \E value \in ContrastTexts : setForeground(value)
    \/ \E value \in ContrastTexts : setBackground(value)
    \/ handleSwap

SpecContrast == InitContrast /\ [][NextContrast]_vars

Spec == SpecContrast

(* The rating function on its own: a ratio drawn from RatioInputs is rated
   as the ratings memo rates the contrast. *)
MaxRatioSteps == 100

RatioStep == Scale \div 4

RatioInputs ==
    {k * RatioStep : k \in 0..MaxRatioSteps}
        \cup {t + d : t \in {3000000, 4500000, 7000000}, d \in {-1, 1}}

Rate ==
    /\ rated = Unrated
    /\ rated' = ratings(ratio)
    /\ UNCHANGED <<ratio, exceptRating>>

NewRatio ==
    /\ rated # Unrated
    /\ \E r \in RatioInputs : ratio' = r
    /\ rated' = Unrated
    /\ UNCHANGED exceptRating

InitRating ==
    /\ ContrastMounted
    /\ ConverterMounted
    /\ FormatIdle
    /\ ThemeIdle
    /\ ToolsMounted
    /\ ratio \in RatioInputs
    /\ rated = Unrated

NextRating == Rate \/ NewRatio

SpecRating == InitRating /\ [][NextRating]_vars

InitConverter ==
    ContrastMounted /\ RatingIdle /\ ConverterMounted /\ FormatIdle /\ ThemeIdle /\ ToolsMounted

NextConverter ==
    \/ \E value \in PickerValues : handlePickerChange(value)
    \/ \E next \in SliderValues : handleAlphaSliderChange(next)
    \/ \E format \in FormatId : applyInput(format)
    \/ \E format \in EditedFormats, value \in TypedTexts : handleInputChange(format, value)

SpecConverter == InitConverter /\ [][NextConverter]_vars

(***************************************************************************)
(* parseToCanonical and formatValues on their own.  A sample is the        *)
(* Canonical Color of a text, one of the colours the converter can store,  *)
(* or a colour built directly: an OKLCH colour whose hue lies outside      *)
(* [0, 360), whose channels or alpha are not finite or not clamped, or a   *)
(* colour in a space culori has no converter from.                         *)
(***************************************************************************)
HexTexts == {t \in ParseTexts : Len(t) = 7 /\ SubSeq(t, 1, 1) = "#"}

SampleTexts == {t \in HexTexts \cup TypedTexts : Parsed[t] # Null}

SampleAlphas == {Scale \div 2, 123456, Scale + Scale \div 2, -(Scale \div 4), NaN}

BuiltBases ==
    {StripAlpha(k) : k \in UNION {row.keys : row \in {r \in CuloriRows :
          \E k \in r.keys : k.mode = "oklch" /\ "h" \in DOMAIN k
                                /\ (~isFinite(k.l) \/ ~isFinite(k.c) \/ ~isFinite(k.h)
                                      \/ k.h < 0 \/ k.h >= 360 * Scale)}}}
        \cup {[mode |-> "unknown"], StripAlpha(INITIAL_COLOR)}

BuiltColours == BuiltBases \cup {SetAlpha(b, a) : b \in BuiltBases, a \in SampleAlphas}

ParseSample(text) ==
    /\ source' = text
    /\ sample' = Parsed[text]
    /\ shown' = NotShown
    /\ UNCHANGED exceptFormat

BuildSample(c) ==
    /\ source' = ""
    /\ sample' = c
    /\ shown' = NotShown
    /\ UNCHANGED exceptFormat

Format ==
    /\ shown = NotShown
    /\ shown' = formatValues(sample)
    /\ UNCHANGED <<source, sample, exceptFormat>>

InitFormat ==
    ContrastMounted /\ RatingIdle /\ ConverterMounted /\ FormatIdle /\ ThemeIdle /\ ToolsMounted

NextFormat ==
    \/ \E text \in SampleTexts : ParseSample(text)
    \/ \E c \in Colors \cup BuiltColours : BuildSample(c)
    \/ Format

SpecFormat == InitFormat /\ [][NextFormat]_vars

(* the item a previous visit may have left in localStorage *)
StoredBefore == {NoItem, <<"dark">>, <<"blue">>}

InitTheme ==
    /\ ContrastMounted /\ RatingIdle /\ ConverterMounted /\ FormatIdle /\ ToolsMounted
    /\ storage \in StoredBefore
    /\ theme = [tab \in Tabs |-> "unmounted"]
    /\ inbox = [tab \in Tabs |-> <<>>]
    /\ writes = 0
    /\ themeEvent = <<"none", 0, "">>

NextTheme ==
    \/ \E tab \in Tabs : ThemeProvider(tab)
    \/ \E tab \in Tabs : Unmount(tab)
    \/ \E tab \in Tabs, nextTheme \in Themes : setTheme(tab, nextTheme)
    \/ \E tab \in Tabs : handleStorage(tab)
    \/ ForeignSetItem("blue")
    \/ ForeignRemoveItem
    \/ ForeignOtherKey("dark")

SpecTheme == InitTheme /\ [][NextTheme]_vars

InitPixel == ColoursMounted /\ ToolsMounted

NextPixel ==
    \/ \E value \in ValueTexts : setValueInput(value)
    \/ \E value \in LengthUnit : setUnit(value)
    \/ \E value \in BaseTexts : setBaseSizeInput(value)

SpecPixel == InitPixel /\ [][NextPixel]_vars

InitSvg == ColoursMounted /\ ToolsMounted

NextSvg ==
    \/ \E value \in SvgTexts : setSourceSvg(value)
    \/ \E value \in PresetId : setActivePresetId(value)
    \/ \E checked \in BOOLEAN : setPreserveViewBox(checked)
    \/ \E checked \in BOOLEAN : setPreserveIds(checked)
    \/ \E checked \in BOOLEAN : setPrettyOutput(checked)
    \/ OptimizeTimeout
    \/ handleFileSelectRejected
    \/ \E text \in SvgTexts : handleFileSelect(text)
    \/ clearAll

SpecSvg == InitSvg /\ [][NextSvg]_vars

(* a timer that stays pending fires: the event loop runs every timeout *)
FairSpecSvg == SpecSvg /\ WF_vars(OptimizeTimeout)

InitRegex == ColoursMounted /\ ToolsMounted

NextRegex ==
    \/ \E value \in PatternTexts : setPattern(value)
    \/ \E value \in TestTexts : setTestString(value)
    \/ \E flag \in DOMAIN NoFlags : toggleFlag(flag)
    \/ \E example \in EXAMPLES : loadExample(example)

SpecRegex == InitRegex /\ [][NextRegex]_vars

InitJson == ColoursMounted /\ ToolsMounted

NextJson ==
    \/ \E value \in JsonTexts : jsonHandleInputChange(value)
    \/ DebounceTimeout
    \/ \E value \in INDENT_OPTIONS : handleIndentChange(value)
    \/ jsonHandleFormat
    \/ jsonHandleMinify
    \/ handleClear

SpecJson == InitJson /\ [][NextJson]_vars

InitImage == ColoursMounted /\ ToolsMounted

NextImage ==
    \/ imageHandleFileChangeEmpty
    \/ \E nextFile \in PickedFiles : imageHandleFileChange(nextFile)
    \/ \E task \in imageConverter.measuring, resolved \in BOOLEAN : DimensionsSettle(task, resolved)
    \/ \E value \in TargetFormats : setTargetFormat(value)
    \/ \E timeout \in imageConverter.timers : ConversionTimeout(timeout)
    \/ \E task \in imageConverter.running, resolved \in BOOLEAN : LoadImageSettles(task, resolved)
    \/ \E task \in imageConverter.running, hasBlob \in BOOLEAN : ToBlobSettles(task, hasBlob)

SpecImage == InitImage /\ [][NextImage]_vars

InitDataUri == ColoursMounted /\ ToolsMounted

NextDataUri ==
    \/ \E selectedFile \in EncoderFiles : dataUriHandleFileChange(selectedFile)
    \/ dataUriHandleFileChangeEmpty
    \/ \E read \in dataUriEncoder.reads : ReaderOnload(read)
    \/ \E read \in dataUriEncoder.reads : ReaderOnerror(read)
    \/ \E text \in EncoderTexts : handleTextChange(text)
    \/ clearFile
    \/ ConvertFileClick
    \/ ConvertStringClick

SpecDataUri == InitDataUri /\ [][NextDataUri]_vars

InitCss == ColoursMounted /\ ToolsMounted

NextCss ==
    \/ \E value \in CssTyped : cssHandleInputChange(value)
    \/ CssDebounceTimeout
    \/ \E value \in CssIndents : cssHandleIndentChange(value)
    \/ cssHandleFormat
    \/ \E task \in cssParser.formatting : FormatSettles(task)
    \/ cssHandleMinify
    \/ \E task \in cssParser.minifying : MinifySettles(task)
    \/ cssHandleClear

SpecCss == InitCss /\ [][NextCss]_vars

(***************************************************************************)
(* Reading a display string back: its pieces and the numbers they spell.   *)
(***************************************************************************)
RECURSIVE SplitAt(_, _, _)
(* the pieces of s between the characters of seps, empty pieces dropped *)
SplitAt(s, seps, piece) ==
    IF Len(s) = 0 THEN (IF piece = "" THEN <<>> ELSE <<piece>>)
    ELSE LET ch == SubSeq(s, 1, 1)
         IN IF ch \in seps
            THEN (IF piece = "" THEN <<>> ELSE <<piece>>) \o SplitAt(Tail(s), seps, "")
            ELSE SplitAt(Tail(s), seps, piece \o ch)

(* "rgba(64, 128, 191, 0.5)" gives <<"rgba", "64", "128", "191", "0.5">> *)
Pieces(s) == SplitAt(s, {"(", ")", " ", ",", "/", "%"}, "")

IsDigits(s) == Len(s) > 0 /\ \A i \in 1..Len(s) : \E d \in 0..9 : SubSeq(s, i, i) = ToString(d)

RECURSIVE DigitsValue(_)
DigitsValue(s) ==
    IF Len(s) = 0 THEN 0
    ELSE DigitsValue(Front(s)) * 10 + (CHOOSE d \in 0..9 : ToString(d) = Last(s))

Unsigned(tok) == IF Len(tok) > 0 /\ SubSeq(tok, 1, 1) = "-" THEN Tail(tok) ELSE tok

(* a decimal numeral: digits, or digits "." digits, with an optional sign *)
IsNumeral(tok) ==
    LET parts == SplitAt(Unsigned(tok), {"."}, "")
    IN /\ Len(parts) \in {1, 2}
       /\ \A i \in 1..Len(parts) : IsDigits(parts[i]) /\ Len(parts[i]) <= 6
       /\ Len(Unsigned(tok)) = Len(parts[1]) + (IF Len(parts) = 2 THEN 1 + Len(parts[2]) ELSE 0)

(* the fixed-point value of a numeral *)
NumeralValue(tok) ==
    LET parts == SplitAt(Unsigned(tok), {"."}, "")
        whole == DigitsValue(parts[1]) * Scale
        frac == IF Len(parts) = 2
                THEN DigitsValue(parts[2]) * 10^(6 - Len(parts[2]))
                ELSE 0
    IN IF Unsigned(tok) = tok THEN whole + frac ELSE -(whole + frac)

IsShown == shown # NotShown

(***************************************************************************)
(* Properties of the contrast checker                                      *)
(***************************************************************************)
Parses(text) == parse(text) # Null

AllPass == [aaNormal |-> "Pass", aaLarge |-> "Pass", aaaNormal |-> "Pass", aaaLarge |-> "Pass"]
AllFail == [aaNormal |-> "Fail", aaLarge |-> "Fail", aaaNormal |-> "Fail", aaaLarge |-> "Fail"]

(* C1: for every pair of colours that parse, the contrast ratio computed by
   getContrast is at least 1 and at most 21. *)
C1_RatioWithin1And21 ==
    (Parses(foreground) /\ Parses(background)) =>
        LET c == getContrast(parse(foreground), parse(background))
        IN Scale <= c /\ c <= 21 * Scale

(* C2: for every pair of parseable colours c1, c2,
   getContrast(c1, c2) = getContrast(c2, c1). *)
C2_ContrastSymmetric ==
    (Parses(foreground) /\ Parses(background)) =>
        getContrast(parse(foreground), parse(background))
            = getContrast(parse(background), parse(foreground))

C2_Witness ==
    /\ foreground = "#767676"
    /\ background = "red"
    /\ getLuminance(parse(foreground)) # getLuminance(parse(background))

(* C3 as stated: a text that does not parse contributes luminance 0, so the
   ratio is that of black against the other colour (21 against #FFFFFF). *)
C3_UnparseableActsAsBlack ==
    /\ (~Parses(foreground) /\ Parses(background)) =>
          contrast(foreground, background)
              = DivFix(getLuminance(parse(background)) + 50000, 50000)
    /\ (Parses(foreground) /\ ~Parses(background)) =>
          contrast(foreground, background)
              = DivFix(getLuminance(parse(foreground)) + 50000, 50000)

(* C3 amended: when the foreground or the background text does not parse,
   getContrast is not called: the contrast is 0, shown as 0.00, and all four
   ratings are Fail. *)
C3_UnparseableGivesZero ==
    (~Parses(foreground) \/ ~Parses(background)) =>
        /\ contrast(foreground, background) = 0
        /\ toFixed(contrast(foreground, background), 2) = "0.00"
        /\ ratings(contrast(foreground, background)) = AllFail

C3_Witness ==
    /\ foreground = "not-a-color"
    /\ background = "#FFFFFF"
    /\ contrast(foreground, background) = 0

(* C4: for every ratio r the labels are AA normal = Pass iff r >= 4.5,
   AA large = Pass iff r >= 3, AAA normal = Pass iff r >= 7, AAA large = Pass
   iff r >= 4.5; a ratio equal to a threshold passes; every label is Pass or
   Fail. *)
C4_RatingThresholds ==
    rated # Unrated =>
        /\ \A k \in DOMAIN rated : rated[k] \in {"Pass", "Fail"}
        /\ (rated.aaNormal = "Pass") <=> (2 * ratio >= 9 * Scale)
        /\ (rated.aaLarge = "Pass") <=> ~(ratio < 3 * Scale)
        /\ (rated.aaaNormal = "Pass") <=> ~(ratio < 7 * Scale)
        /\ (rated.aaaLarge = "Pass") <=> (2 * ratio >= 9 * Scale)

C4_Witness ==
    /\ ratio = 7 * Scale
    /\ rated.aaaNormal = "Pass"

(* C5: with foreground #000000 and background #FFFFFF, the initial state, the
   ratio is exactly 21, it is displayed as 21.00, and all four ratings are
   Pass. *)
C5_BlackOnWhite ==
    /\ (DEFAULT_FOREGROUND = "#000000" /\ DEFAULT_BACKGROUND = "#FFFFFF")
    /\ (foreground = "#000000" /\ background = "#FFFFFF") =>
          /\ contrast(foreground, background) = 21 * Scale
          /\ toFixed(contrast(foreground, background), 2) = "21.00"
          /\ ratings(contrast(foreground, background)) = AllPass

C5_Witness ==
    /\ foreground = DEFAULT_FOREGROUND
    /\ background = DEFAULT_BACKGROUND
    /\ swaps = 2

(* the ratings of the #777777 on #FFFFFF scenario *)
GreyOnWhiteRatings ==
    [aaNormal |-> "Fail", aaLarge |-> "Pass", aaaNormal |-> "Fail", aaaLarge |-> "Fail"]

(* C6 as stated: with foreground #777777 and background #FFFFFF the
   displayed ratio is 3.54 and the ratings are Fail, Pass, Fail, Fail. *)
C6_GreyOnWhite354 ==
    (foreground = "#777777" /\ background = "#FFFFFF") =>
        /\ toFixed(contrast(foreground, background), 2) = "3.54"
        /\ ratings(contrast(foreground, background)) = GreyOnWhiteRatings

(* C6 amended: with foreground #777777 and background #FFFFFF the displayed
   ratio is 4.48, and the ratings are AA normal Fail, AA large Pass,
   AAA normal Fail, AAA large Fail. *)
C6_GreyOnWhite448 ==
    (foreground = "#777777" /\ background = "#FFFFFF") =>
        /\ toFixed(contrast(foreground, background), 2) = "4.48"
        /\ ratings(contrast(foreground, background)) = GreyOnWhiteRatings

C6_Witness ==
    /\ foreground = "#777777"
    /\ background = "#FFFFFF"

(* C7: a swap exchanges foreground and background and leaves the ratio and
   the four ratings as they were; two swaps in a row restore the state; for
   any pair of texts, parseable or not. *)
C7_SwapExchangesOnly ==
    /\ swaps = 1 =>
          /\ foreground = swapFrom[2]
          /\ background = swapFrom[1]
          /\ contrast(foreground, background) = contrast(swapFrom[1], swapFrom[2])
          /\ ratings(contrast(foreground, background))
                = ratings(contrast(swapFrom[1], swapFrom[2]))
    /\ swaps = 2 => <<foreground, background>> = swapFrom

C7_Witness ==
    /\ swaps = 2
    /\ ~Parses(foreground)
    /\ Parses(background)
    /\ background # "#000000"

(***************************************************************************)
(* Properties of the colour converter                                      *)
(***************************************************************************)
Message == "Unrecognized color value."

(* C8: a commit (blur or Enter) of text that does not parse leaves the
   Canonical Color unchanged, leaves every field's draft and every other
   field's error unchanged, and sets only the committing field's error, to
   the "Unrecognized color value" message. *)
C8_FailedCommitIsLocal ==
    [][\A f \in FormatId :
          (lastEvent' = <<"applyInput", f>> /\ Parsed[inputValues[f]] = Null) =>
              /\ color' = color
              /\ inputValues' = inputValues
              /\ DOMAIN inputErrors' = DOMAIN inputErrors \cup {f}
              /\ inputErrors'[f] = Message
              /\ \A g \in DOMAIN inputErrors \ {f} : inputErrors'[g] = inputErrors[g]]_vars

C8_Witness ==
    /\ lastEvent = <<"applyInput", "lab">>
    /\ DOMAIN inputErrors = {"lab", "hex"}
    /\ inputValues.hex = "not-a-color"
    /\ color = INITIAL_COLOR

(* C9: after a successful commit from a field every one of the ten fields
   displays the string rendered from the new Canonical Color, so the drafts
   of the other fields are overwritten and the committing field has no error;
   committing hsl(210, 50%, 50%) in the hsl field makes the hex field show
   the hex of that colour. *)
C9_CommitRendersAllFields ==
    [][\A f \in FormatId :
          (lastEvent' = <<"applyInput", f>> /\ Parsed[inputValues[f]] # Null) =>
              /\ color' = Parsed[inputValues[f]]
              /\ \A g \in FormatId : inputValues'[g] = Rendered[color'][g]
              /\ inputValues'.hex = pickerColor(color')
              /\ f \notin DOMAIN inputErrors'
              /\ (f = "hsl" /\ inputValues[f] = "hsl(210, 50%, 50%)") =>
                    inputValues'.hex = colorToHex(parse(inputValues[f]))]_vars

C9_Witness ==
    /\ lastEvent = <<"applyInput", "hsl">>
    /\ inputValues.hex = "#4080BF"
    /\ inputValues.hsl = "hsl(210, 50%, 50%)"
    /\ Drafts = {"hsl"}
    /\ inputErrors = NoErrors

(* C10: editing a field's draft changes only that field's draft and clears
   only that field's error: the Canonical Color, the preview, picker and
   alpha values derived from it, and every other field's draft and error are
   unchanged. *)
C10_EditIsLocal ==
    [][\A f \in FormatId :
          lastEvent' = <<"handleInputChange", f>> =>
              /\ color' = color
              /\ previewColor(color') = previewColor(color)
              /\ pickerColor(color') = pickerColor(color)
              /\ alphaValue(color') = alphaValue(color)
              /\ inputValues'[f] \in TypedTexts
              /\ \A g \in FormatId \ {f} : inputValues'[g] = inputValues[g]
              /\ DOMAIN inputErrors' = DOMAIN inputErrors \ {f}
              /\ \A g \in DOMAIN inputErrors' : inputErrors'[g] = inputErrors[g]]_vars

C10_Witness ==
    /\ lastEvent = <<"handleInputChange", "lab">>
    /\ DOMAIN inputErrors = {"hsl"}
    /\ inputValues.lab = "not-a-color"

(* C11: in every reachable state of the colour converter the stored
   Canonical Color has mode oklch. *)
C11_CanonicalIsOklch == color.mode = "oklch"

C11_Witness ==
    /\ lastEvent = <<"applyInput", "hex">>
    /\ inputValues.hsl = "hsl(0, 100%, 50%)"
    /\ color.mode = "oklch"
    /\ color.alpha = Scale \div 2

(* C12: in every reachable state of the colour converter the stored
   Canonical Color has a defined alpha between 0 and 1: a parsed colour
   without alpha gets alpha 1, and parsed or slider alphas outside [0,1] are
   clamped. *)
C12_AlphaDefinedInUnitRange ==
    /\ "alpha" \in DOMAIN color
    /\ isFinite(color.alpha)
    /\ 0 <= color.alpha /\ color.alpha <= Scale
    /\ lastEvent = <<"handlePickerChange", "">> => color.alpha = Scale
    /\ lastEvent = <<"handleAlphaSliderChange", "1.50">> => color.alpha = Scale
    /\ lastEvent = <<"handleAlphaSliderChange", "-0.25">> => color.alpha = 0

C12_Witness ==
    /\ lastEvent = <<"handleAlphaSliderChange", "1.50">>
    /\ color.alpha = Scale
    /\ inputValues.hex = "#FFFFFF"

(***************************************************************************)
(* Properties of parseToCanonical and formatValues                         *)
(***************************************************************************)
HexUpper == {SubSeq("0123456789ABCDEF", i, i) : i \in 1..16}

IsHexText(s) ==
    /\ Len(s) = 7
    /\ SubSeq(s, 1, 1) = "#"
    /\ \A i \in 2..7 : SubSeq(s, i, i) \in HexUpper

(* C13: for every valid six-digit hex string #RRGGBB, in any letter case,
   parsing it to the Canonical Color and formatting that as hex yields the
   same six digits in upper case. *)
C13_HexRoundTrip ==
    (IsShown /\ source \in HexTexts) =>
        /\ shown.hex = toUpperCase(source)
        /\ IsHexText(shown.hex)
        /\ colorToHex(parseToCanonical(source)) = shown.hex

C13_Witness ==
    /\ source = "#fFfF00"
    /\ shown.hex = "#FFFF00"

AlphaFormats == {"rgba", "hsla", "hwb", "lab", "lch", "oklab", "oklch"}

(* the alpha a display string is expected to show: a in [0,1], NaN as 0,
   rounded to three decimals *)
ExpectedAlpha(a) ==
    LET inUnit == IF a = NaN THEN 0 ELSE IF a < 0 THEN 0 ELSE IF a > Scale THEN Scale ELSE a
    IN ((inUnit + 500) \div 1000) * 1000

EndsWith(s, tail) == Len(s) >= Len(tail) /\ SubSeq(s, Len(s) - Len(tail) + 1, Len(s)) = tail

(* C14: for every Canonical Color with alpha a, each display string whose
   syntax carries alpha (rgba, hsla, hwb, lab, lch, oklab, oklch) shows a
   clamped to [0,1] and rounded to 3 decimals. *)
C14_AlphaShownInEveryAlphaFormat ==
    (IsShown /\ sample.mode = "oklch" /\ "alpha" \in DOMAIN sample) =>
        \A f \in AlphaFormats :
            LET pieces == Pieces(shown[f])
                tok == pieces[Len(pieces)]
            IN /\ IsNumeral(tok)
               /\ NumeralValue(tok) = ExpectedAlpha(sample.alpha)
               /\ EndsWith(shown[f], (IF f \in {"rgba", "hsla"} THEN ", " ELSE " / ")
                                         \o tok \o ")")

C14_Witness ==
    /\ IsShown
    /\ sample = SetAlpha(StripAlpha(INITIAL_COLOR), 123456)
    /\ shown.hsla = "hsla(238.7, 83.53%, 66.67%, 0.123)"
    /\ shown.oklch = "oklch(0.585 0.2041 277.1 / 0.123)"

(* where the hue stands among the pieces of a display string *)
HuePiece == [hsl |-> 2, hsla |-> 2, hwb |-> 2, lch |-> 4, oklch |-> 4]

(* C15: for every stored hue value (negative, 360 or larger, undefined or
   not finite) the hue number shown in the hsl, hsla, hwb, lch and oklch
   display strings is at least 0 and strictly less than 360. *)
C15_HueShownBelow360 ==
    IsShown =>
        \A f \in DOMAIN HuePiece :
            LET tok == Pieces(shown[f])[HuePiece[f]]
            IN /\ IsNumeral(tok)
               /\ 0 <= NumeralValue(tok)
               /\ NumeralValue(tok) < 360 * Scale

NonFinite(c) ==
    \E k \in DOMAIN c \ {"mode"} : c[k] \in {NaN, Infinity, NegInfinity}

(* C16: for a colour whose alpha is NaN or whose channel values are not
   finite, formatting completes and every number in every display string is
   a finite numeral: no NaN or Infinity text is rendered in any of the ten
   formats. *)
C16_NoNonFiniteText ==
    (IsShown /\ NonFinite(sample)) =>
        /\ IsHexText(shown.hex)
        /\ \A f \in FormatId \ {"hex"} :
              LET pieces == Pieces(shown[f])
              IN \A i \in 2..Len(pieces) : IsNumeral(pieces[i])

(* the strings of a colour no conversion has a result for, alpha shown as a *)
ZeroedStrings(a) ==
    [ hex   |-> "#000000",
      rgb   |-> "rgb(0, 0, 0)",
      rgba  |-> "rgba(0, 0, 0, 1)",
      hsl   |-> "hsl(0, 0%, 0%)",
      hsla  |-> "hsla(0, 0%, 0%, " \o a \o ")",
      hwb   |-> "hwb(0 0% 0% / " \o a \o ")",
      lab   |-> "lab(0 0 0 / " \o a \o ")",
      lch   |-> "lch(0 0 0 / " \o a \o ")",
      oklab |-> "oklab(0 0 0 / " \o a \o ")",
      oklch |-> "oklch(0 0 0 / " \o a \o ")" ]

AlphaText(c) ==
    IF "alpha" \notin DOMAIN c THEN "1"
    ELSE CASE c.alpha = Scale \div 2 -> "0.5"
           [] c.alpha = 123456 -> "0.123"
           [] c.alpha = Scale + Scale \div 2 -> "1"
           [] OTHER -> "0"

(* C17: when the conversion to a target space returns no result, formatting
   completes: the string of that space is rendered from a zeroed structure
   whose alpha is the current alpha (1 when the colour has none, and 1 for
   the rgb structure), and all ten format strings are produced. *)
C17_ZeroedFallback ==
    (IsShown /\ toRgb(sample) = Null /\ toHsl(sample) = Null /\ toLab(sample) = Null) =>
        /\ DOMAIN shown = FormatId
        /\ shown = ZeroedStrings(AlphaText(sample))

C17_Witness ==
    /\ IsShown
    /\ sample = [mode |-> "unknown", alpha |-> Scale \div 2]
    /\ shown.hsla = "hsla(0, 0%, 0%, 0.5)"
    /\ shown.rgba = "rgba(0, 0, 0, 1)"

IsByte(tok) == IsDigits(tok) /\ Len(tok) <= 3 /\ DigitsValue(tok) <= 255

(* C18: for every Canonical Color, including ones whose RGB conversion
   falls outside [0,1], each channel in the rgb and rgba strings is an
   integer in 0..255 and each hex channel is exactly two upper-case hex
   digits. *)
C18_ByteChannels ==
    IsShown =>
        /\ IsHexText(shown.hex)
        /\ Len(Pieces(shown.rgb)) = 4
        /\ Len(Pieces(shown.rgba)) = 5
        /\ \A i \in 2..4 : IsByte(Pieces(shown.rgb)[i]) /\ IsByte(Pieces(shown.rgba)[i])

C18_Witness ==
    /\ IsShown
    /\ source = ""
    /\ sample.mode = "oklch"
    /\ toRgb(sample).r > Scale
    /\ toRgb(sample).r < Infinity
    /\ shown.rgb = "rgb(255, 255, 255)"
    /\ shown.hex = "#FFFFFF"

(* C19: an alpha-slider change to a numeric value v replaces the Canonical
   Color with a new one whose alpha is v clamped to [0,1] and whose
   lightness, chroma and hue are those of the previous colour; a slider
   value that is not a number or is NaN leaves the Canonical Color (and with
   it the drafts and the errors) unchanged. *)
C19_SliderSetsAlphaOnly ==
    [][\A v \in SliderValues :
          lastEvent' = <<"handleAlphaSliderChange", SliderText(v)>> =>
              IF v \in {NaN, Undefined}
              THEN /\ color' = color
                   /\ inputValues' = inputValues
                   /\ inputErrors' = inputErrors
              ELSE /\ color'.alpha = ExpectedAlpha(v)
                   /\ color'.mode = "oklch"
                   /\ StripAlpha(color') = StripAlpha(color)
                   /\ inputValues' = Rendered[color']
                   /\ inputErrors' = NoErrors]_vars

C19_Witness ==
    /\ lastEvent = <<"handleAlphaSliderChange", "NaN">>
    /\ DOMAIN inputErrors = {"hex"}
    /\ color.alpha = Scale \div 2
    /\ color # SetAlpha(StripAlpha(INITIAL_COLOR), Scale \div 2)

(***************************************************************************)
(* Properties of the theme provider                                        *)
(***************************************************************************)
(* C20: setTheme(t) sets the in-memory theme to t and stores t under the
   storage key, and a provider initialised afterwards starts with the theme
   that is stored; a stored value that is not one of light, dark or system
   (or no stored value) is ignored and the default theme is used. *)
C20_ThemeRoundTrip ==
    [][\A tab \in Tabs :
          /\ \A t \in Themes :
                themeEvent' = <<"setTheme", tab, t>> =>
                    /\ theme'[tab] = t
                    /\ storage' = <<t>>
          /\ themeEvent' = <<"mount", tab, "">> =>
                /\ storage' = storage
                /\ (\E t \in Themes : storage = <<t>>) => theme'[tab] = storage[1]
                /\ (\A t \in Themes : storage # <<t>>) => theme'[tab] = "system"]_vars

C20_Witness ==
    /\ themeEvent = <<"mount", 2, "">>
    /\ writes = 1
    /\ storage = <<"light">>
    /\ theme = [tab \in Tabs |-> "light"]

(***************************************************************************)
(* Properties of the pixel converter                                       *)
(***************************************************************************)
(* C21: for every numeric value v, unit u and root size b > 0, px is v when
   u is px and v * b when u is rem or em, rem is px / b and em is rem; a
   value that is not numeric, or a root size that is not numeric, zero or
   negative, gives an error state without converted values, the error of
   the value coming first. *)
C21_PixelConversion ==
    LET v == parseFloat(valueInput)
        b == parseFloat(baseSizeInput)
    IN /\ ~isFinite(v) => display = [state |-> "error", message |-> VALUE_ERROR]
       /\ isFinite(v) /\ (~isFinite(b) \/ b <= 0) =>
              display = [state |-> "error", message |-> BASE_ERROR]
       /\ isFinite(v) /\ isFinite(b) /\ b > 0 =>
              /\ conversion.px = (IF unit = "px" THEN v ELSE MulFix(v, b))
              /\ conversion.rem = Divide(conversion.px, b)
              /\ conversion.em = conversion.rem
              /\ display.state = "ready"
              /\ display.values.em = display.values.rem
       /\ valueInput = "16" /\ unit = "px" /\ baseSizeInput = "10" =>
              display.values = [px |-> "16", rem |-> "1.6", em |-> "1.6"]

C21_Witness ==
    /\ valueInput = "1.5"
    /\ unit = "rem"
    /\ baseSizeInput = "16"
    /\ display.values = [px |-> "24", rem |-> "1.5", em |-> "1.5"]

(***************************************************************************)
(* Properties of the SVG optimizer                                         *)
(***************************************************************************)
(* what the debounce effect depends on *)
OptimizerInputs(s) == <<s.sourceSvg, s.activePresetId, s.overrides>>

(* the text optimizedSvg holds once the present inputs are worked off *)
OptimizerOutput(s) ==
    LET result == optimize(s.sourceSvg, buildOptions(s.activePresetId, s.overrides))
    IN IF trim(s.sourceSvg) # "" /\ result[1] = "data" THEN result[2] ELSE ""

(* the optimizer is at rest with the outcome of its present inputs *)
OptimizerSettled ==
    /\ ~svgOptimizer.isProcessing
    /\ svgOptimizer.timers = {}
    /\ svgOptimizer.optimizedSvg = OptimizerOutput(svgOptimizer)

(* a step that changes what the debounce effect depends on *)
InputsChange == OptimizerInputs(svgOptimizer') # OptimizerInputs(svgOptimizer)

(* the timers pending before an input change are cleared by it, and a blank
   source is answered at once *)
ChangeCancels ==
    /\ \A t \in svgOptimizer.timers : t.token \in optimizations'.cleared
    /\ (trim(svgOptimizer'.sourceSvg) = "") =>
          (/\ svgOptimizer'.optimizedSvg = ""
           /\ ~svgOptimizer'.isProcessing
           /\ svgOptimizer'.error = NoError)

(* the step in which optimize() runs leaves the outcome of the inputs *)
RunSettles ==
    /\ OptimizerSettled'
    /\ ~InputsChange
    /\ (svgOptimizer'.optimizedSvg = "") => (svgOptimizer'.error # NoError)

(* C22: a change of source, preset or overrides that arrives before the
   200 ms timer fires cancels the pending optimization, which then never
   runs; once the inputs stop changing, isProcessing eventually becomes false
   and optimizedSvg is the result for the latest input (or empty with error
   set, when optimize() threw); an empty or whitespace-only source ends with
   optimizedSvg empty, isProcessing false and error null. *)
C22_DebouncedOptimization ==
    /\ [][(InputsChange => ChangeCancels)
            /\ ((optimizations'.ran # optimizations.ran) => RunSettles)]_vars
    /\ [](optimizations.ran \cap optimizations.cleared = {})
    /\ [](~svgOptimizer.isProcessing => OptimizerSettled)
    /\ ([]<><<InputsChange>>_vars \/ <>[]OptimizerSettled)

(* a second input arrived while the timer of the first was pending, and the
   optimizer has settled on the second *)
C22_Witness ==
    /\ optimizations = [ran |-> {2}, cleared |-> {1}]
    /\ svgOptimizer.sourceSvg = "<svg/>"
    /\ svgOptimizer.activePresetId = "aggressive"
    /\ svgOptimizer.optimizedSvg =
          "<!-- aggressive cleanupIds=false removeDimensions convertPathData mergePaths --><svg/>"
    /\ ~svgOptimizer.isProcessing

(***************************************************************************)
(* Properties of the regex tester                                          *)
(***************************************************************************)
(* the pattern compiles with the selected flags *)
PatternCompiles ==
    NewRegExp(regexTester.pattern, JoinFlags(regexTester.flags, 1))[1] = "return"

(* C23: whenever the pattern is non-empty and cannot be compiled with the
   selected flags, regexError is a non-null message, and matches and
   explanation are suppressed; regexError is null only when the pattern is
   empty or compiles. *)
C23_RegexErrorShown ==
    /\ (regexTester.pattern # "" /\ ~PatternCompiles) =>
          (regexError # NoError /\ matches = Null /\ explanation = <<>>)
    /\ (regexError = NoError) => (regexTester.pattern = "" \/ PatternCompiles)

(***************************************************************************)
(* Properties of the JSON tool                                             *)
(***************************************************************************)
(* what a click must leave in the editor: the form of the text that was in
   the editor, or that text itself when it is not valid JSON *)
ExpectedEditor(text, gap) ==
    IF parseStateOf(text).status = "valid"
    THEN JsonStringify(parseStateOf(text).value, gap, 0)
    ELSE text

(* C24: Format and Minify replace the editor content with the formatted or
   minified form of the text that is in the editor at the moment of the
   click, also when the click comes within the 300 ms debounce window after
   the last edit; they do nothing when that text is not valid JSON. *)
C24_FormatUsesEditorText ==
    [][/\ (jsonClick'[1] = "handleFormat") =>
            (jsonParser'.rawInput =
                ExpectedEditor(jsonParser.rawInput, Indent(jsonParser.indentSetting)))
       /\ (jsonClick'[1] = "handleMinify") =>
            (jsonParser'.rawInput = ExpectedEditor(jsonParser.rawInput, ""))]_vars

(***************************************************************************)
(* Further properties of the colour converter                              *)
(***************************************************************************)
(* C25: committing (blur or Enter) any of the ten fields while its text is
   exactly the string last rendered from the Canonical Color leaves the
   alpha of the Canonical Color unchanged. *)
C25_CommitOfRenderedKeepsAlpha ==
    [][\A f \in FormatId :
          (lastEvent' = <<"applyInput", f>> /\ inputValues[f] = Rendered[color][f]) =>
              color'.alpha = color.alpha]_vars

(* the latest event replaced the Canonical Color: a commit of a text that
   parses, a picker change, or a slider change to a number *)
ColorReplaced(before, event) ==
    \/ event[1] = "handlePickerChange"
    \/ event[1] = "handleAlphaSliderChange" /\ event[2] \notin {"NaN", "undefined"}
    \/ event[1] = "applyInput" /\ Parsed[before[event[2]]] # Null

(* C26: a field shows an error only between a failed commit of that field
   and the next edit of that same field or the next replacement of the
   Canonical Color: after any successful commit, picker change or
   alpha-slider change, no field shows an error. *)
C26_ErrorOnlyAfterFailedCommit ==
    [][/\ \A f \in FormatId :
             /\ (f \in DOMAIN inputErrors' /\ f \notin DOMAIN inputErrors) =>
                   (lastEvent' = <<"applyInput", f>> /\ Parsed[inputValues[f]] = Null)
             /\ (lastEvent' = <<"handleInputChange", f>>) => (f \notin DOMAIN inputErrors')
       /\ ColorReplaced(inputValues, lastEvent') => (inputErrors' = NoErrors)
       /\ (color' # color) => (inputErrors' = NoErrors)]_vars

(* the lab field still shows the error of its failed commit, the hex field
   was edited after its own and shows none *)
C26_Witness ==
    /\ lastEvent = <<"handleInputChange", "hex">>
    /\ inputValues.hex = "not-a-color"
    /\ inputValues.lab = "not-a-color"
    /\ DOMAIN inputErrors = {"lab"}

(***************************************************************************)
(* Properties of the image converter                                       *)
(***************************************************************************)
(* C27: a conversion result is installed only if it belongs to the most
   recently scheduled conversion, and whenever no file is selected
   convertedImage stays null: a conversion that was in flight when the file
   was removed or rejected as a non-image never installs its result
   afterwards. *)
C27_StaleConversionNeverInstalls ==
    /\ [][(imageConverter'.convertedImage # imageConverter.convertedImage
              /\ imageConverter'.convertedImage # NoImage) =>
            (imageConverter'.convertedImage[1].token = imageConverter.convertTokenRef)]_vars
    /\ [](imageConverter.file = NoFile => imageConverter.convertedImage = NoImage)

(***************************************************************************)
(* C28.  In the data URI encoder the output never shows the data URI of a  *)
(* file that was discarded: whenever the output is the data URI of a file, *)
(* that file is the one held (so a read in flight when the file was        *)
(* cleared or the mode was switched has not written its result), and in    *)
(* text mode the output is empty exactly when the text input is empty.     *)
(***************************************************************************)
FileDataUris == {readAsDataURL(name) : name \in EncoderFiles}

C28_NoDiscardedFileInOutput ==
    /\ dataUriEncoder.output \in FileDataUris =>
          /\ dataUriEncoder.inputMode = "file"
          /\ dataUriEncoder.file # NoFile
          /\ dataUriEncoder.output = readAsDataURL(dataUriEncoder.file[1])
    /\ dataUriEncoder.inputMode = "text" =>
          (dataUriEncoder.output = "" <=> dataUriEncoder.textInput = "")

(***************************************************************************)
(* C29.  With the tabs sharing the storage key: once every storage event   *)
(* has been delivered and local storage holds a theme, the theme of every  *)
(* open tab is the stored theme; and a storage event for another key, with *)
(* a null value or with a value that is no theme leaves the theme of the   *)
(* tab that handles it unchanged.                                          *)
(***************************************************************************)
AllDelivered == \A tab \in Tabs : inbox[tab] = <<>>

TabsAgreeWithStorage ==
    (AllDelivered /\ isValidTheme(storage)) =>
        \A tab \in Mounted : theme[tab] = storage[1]

IgnoredEvent(event) ==
    \/ event.key # storageKey
    \/ event.newValue = NoItem
    \/ ~isValidTheme(event.newValue)

IgnoredEventKeepsTheme ==
    \A tab \in Tabs :
        (/\ themeEvent'[1] = "handleStorage"
         /\ themeEvent'[2] = tab
         /\ inbox[tab] # <<>>
         /\ IgnoredEvent(Head(inbox[tab]))) => (theme' = theme)

C29_TabsConverge ==
    /\ []TabsAgreeWithStorage
    /\ [][IgnoredEventKeepsTheme]_vars

(***************************************************************************)
(* C30.  In the CSS tool at most one Format and at most one Minify         *)
(* operation is in flight at a time, and a click while one is running      *)
(* starts nothing; a flag is true exactly while its operation is in        *)
(* flight, so it is false again once the operation has completed or        *)
(* failed; and an operation that settles after the user typed while it was *)
(* in flight leaves the text as the user typed it.                         *)
(***************************************************************************)
OneInFlight ==
    /\ Cardinality(cssParser.formatting) <= 1
    /\ Cardinality(cssParser.minifying) <= 1

FlagsFollowOperations ==
    /\ cssParser.isFormatting <=> cssParser.formatting # {}
    /\ cssParser.isMinifying <=> cssParser.minifying # {}

ClickWhileRunningIgnored ==
    /\ (cssParser.isFormatting /\ cssParser'.isFormatting) =>
          cssParser'.formatting = cssParser.formatting
          \/ \E task \in cssParser.formatting : cssParser'.formatting = Typed({task})
    /\ (cssParser.isMinifying /\ cssParser'.isMinifying) =>
          cssParser'.minifying = cssParser.minifying
          \/ \E task \in cssParser.minifying : cssParser'.minifying = Typed({task})

TypedTextSurvives ==
    \A task \in cssParser.formatting \cup cssParser.minifying :
        (task.typed /\ task \notin cssParser'.formatting \cup cssParser'.minifying) =>
            (cssParser'.rawInput = cssParser.rawInput)

C30_CssOperations ==
    /\ [](OneInFlight /\ FlagsFollowOperations)
    /\ [][ClickWhileRunningIgnored /\ TypedTextSurvives]_vars

====
